---- MODULE Spec2Model ----
(***************************************************************************)
(* The InnoDB purge subsystem (storage/innobase/trx/trx0purge.cc): the     *)
(* purge queue and its iterator, the history lists of the rollback         *)
(* segments, the purge batch (trx_purge) and the history truncation        *)
(* (trx_purge_truncate_history).                                           *)
(***************************************************************************)
EXTENDS Integers, Sequences, FiniteSets, TLC

\* ------------------------------------------------------------------ bounds
NRsegs == 2          \* rollback segments (TRX_SYS_N_RSEGS slots in use)
NTables == 2         \* table ids that undo records refer to
MaxTrxId == 5        \* cap of trx_sys.max_trx_id
MaxRecs == 2         \* undo records of one undo log
MaxActive == 1       \* transactions active at a time
MaxViews == 1        \* read views open at a time
MaxThreads == 2      \* largest n_purge_threads passed to trx_purge
MaxBatch == 2        \* largest srv_purge_batch_size
PageCapacity == 1    \* undo records that fit in one undo page
LoadMaxTrxId == 7    \* cap of trx_sys.max_trx_id in SpecLoad
LoadMaxActive == 2   \* transactions active at a time in SpecLoad
LoadMaxBatch == 3    \* largest srv_purge_batch_size in SpecLoad
LoadMinBatch == 2    \* smallest srv_purge_batch_size in SpecLoad
UndoThreshold == 1000  \* srv_max_undo_log_size >> srv_page_size_shift, in pages
GrownSize == 2000    \* pages of an undo tablespace that has been extended
MaxHistoryLen == 9   \* largest trx_sys.rseg_history_len in SpecDelay
MaxLag == 3          \* largest srv_max_purge_lag in SpecDelay
NSpaces == 2         \* undo tablespaces (srv_undo_tablespaces_active) in SpecTrunc
TruncNRsegs == 3     \* rollback segments in SpecTrunc
TruncMaxTrxId == 5   \* cap of trx_sys.max_trx_id in SpecTrunc
TruncMaxActive == 1  \* transactions active at a time in SpecTrunc

\* ------------------------------------------------------- program constants
FIL_NULL == 2147483647  \* 0xffffffff in the source; the largest page number here

Rsegs == 1..NRsegs
Tables == 1..NTables
NoRseg == 0          \* purge_sys.rseg == NULL
NoSpace == 0         \* purge_sys.truncate.current == NULL, truncate.last == NULL
SRV_UNDO_TABLESPACE_SIZE_IN_PAGES == 640  \* 10 MiB of 16 KiB pages

\* srv_shutdown_state
SRV_SHUTDOWN_NONE == "NONE"
SRV_SHUTDOWN_INITIATED == "INITIATED"

\* undo segment states (TRX_UNDO_STATE)
TRX_UNDO_ACTIVE == "ACTIVE"
TRX_UNDO_CACHED == "CACHED"
TRX_UNDO_TO_PURGE == "TO_PURGE"

\* A record standing for "no undo record" (NULL) and the dummy record.
NullRec == [kind |-> "null"]
trx_purge_dummy_rec == [kind |-> "dummy"]

VARIABLES
  max_trx_id,        \* trx_sys.max_trx_id: source of trx ids and trx_no
  trxs,              \* active transactions: set of [id, rseg, seg]
  views,             \* low_limit_no of the read views that are open
  rseg_array,        \* trx_sys.rseg_array: in-memory trx_rseg_t fields
  rseg_hdr,          \* rollback segment header pages: history list and size
  undo_segs,         \* undo log segments on disk: seg id -> [state, size, nlogs]
  rseg_history_len,  \* trx_sys.rseg_history_len
  purge_queue,       \* purge_sys.purge_queue
  purge_sys,         \* purge_sys: head, tail, rseg, cursor, iterator, view
  pc,                \* where the purge coordinator is
  batch,             \* locals of trx_purge_attach_undo_recs
  nodes,             \* purge_node_t::undo_recs of each node of purge_sys.query
  srv,               \* the srv_* globals that purge reads and writes
  spaces,            \* the undo tablespaces: space -> [size] (fil_space_t)
  probe,             \* arguments and result of a function applied on its own
  sync,              \* the mutexes: owner of pq_mutex and of each rseg->mutex,
                     \*   and where each thread is in its critical sections
  ghost              \* history variables: what the claims observe
                     \*   fetched: the records fetched in the current batch
                     \*   popped: the last element set_next took from the queue
                     \*     (sel, tail_ok: what the assertions of lines 112 and
                     \*     120 found at every set_next of the batch so far)
                     \*   removals: the logs the last truncation removed
                     \*   done: <<rseg, trx_no, undo_no>> of the records
                     \*     fetched so far whose log is on a history list
                     \*   cut: the batch ended on srv_purge_batch_size
                     \*   prev_view: at the start of a batch, low_limit_no of
                     \*     the batch before (NoView once the batch fetches)
                     \*   attempts: what the last call of
                     \*     trx_purge_truncate_history did with the undo
                     \*     tablespaces
                     \*   again: that call was the second of two in a row
                     \*     and the first had truncated a tablespace

vars == <<max_trx_id, trxs, views, rseg_array, rseg_hdr, undo_segs,
          rseg_history_len, purge_queue, purge_sys, pc, batch, nodes, srv,
          spaces, probe, ghost, sync>>

\* ----------------------------------------------------------------- helpers
Min(S) == CHOOSE x \in S : \A y \in S : x <= y
Max(S) == CHOOSE x \in S : \A y \in S : x >= y

\* Page number of page pg (1 = the header page) of undo segment seg.
PageNo(seg, pg) == seg * (MaxRecs + 1) + (pg - 1)

\* purge_sys_t::iterator::operator<=
iterator_le(a, b) ==
  \/ a.trx_no < b.trx_no
  \/ a.trx_no = b.trx_no /\ a.undo_no <= b.undo_no

\* trx_rseg_t::last_trx_no(), last_offset(), set_last_commit()
last_trx_no(rseg) == rseg.last_commit
last_offset(rseg) == rseg.last_offset
set_last_commit(rseg, offset, trx_no) ==
  [rseg EXCEPT !.last_commit = trx_no, !.last_offset = offset]

\* purge_sys_t::low_limit_no() and purge_sys_t::sees(): the purge view.
low_limit_no(ps) == ps.view
sees(ps, id) == id < ps.view

\* The undo log whose header is at (page, boffset) on the history of r.
LogIndex(hdr, page, boffset) ==
  CHOOSE k \in 1..Len(hdr.history) :
    hdr.history[k].page = page /\ hdr.history[k].boffset = boffset

\* ------------------------------------------------------------- purge queue
\* TrxUndoRsegs: [trx_no, rsegs]; NullElement is the sentinel.
NullElement == [trx_no |-> 0, rsegs |-> <<>>]
TrxUndoRsegs(trx_no, r) == [trx_no |-> trx_no, rsegs |-> <<r>>]

\* purge_queue_t (std::priority_queue ordered by trx_no, least on top),
\* kept as a sequence with the least trx_no first.
purge_queue_push(q, e) ==
  LET before == SelectSeq(q, LAMBDA x : x.trx_no <= e.trx_no)
      after == SelectSeq(q, LAMBDA x : x.trx_no > e.trx_no)
  IN before \o <<e>> \o after
purge_queue_top(q) == Head(q)
purge_queue_pop(q) == Tail(q)

\* -------------------------------------------------------------------- Init
ZeroIter == [trx_no |-> 0, undo_no |-> 0]
NoPop == [trx_no |-> 0, least |-> 0, n |-> 0, sel |-> TRUE, tail_ok |-> TRUE]
NoView == 0 - 1
EmptyMap == [x \in {} |-> 0]
\* Threads and mutexes: thread 0 is the purge coordinator, the others commit
\* transactions; mutex 0 is purge_sys.pq_mutex, mutex r is the mutex of
\* rollback segment r.
NCommitters == 2
PurgeThread == 0
NoThread == 0 - 1
PqMutex == 0
NoMutex == 0 - 1
Threads == 0..NCommitters
Committers == 1..NCommitters
Mutexes == 0..NRsegs

\* No mutex is owned, every thread is outside its critical sections; page
\* is the page access a thread is performing ("none", "read", "free",
\* "write"), held its mutexes in the order it acquired them.
InitSync ==
  [owner |-> [m \in Mutexes |-> NoThread],
   at |-> [t \in Threads |-> [l |-> "idle", r |-> NoRseg]],
   held |-> [t \in Threads |-> <<>>],
   page |-> [t \in Threads |-> "none"]]

InitGhost ==
  [fetched |-> <<>>, popped |-> NoPop, removals |-> <<>>, cut |-> FALSE,
   prev_view |-> NoView, attempts |-> <<>>, again |-> FALSE, done |-> {}]

InitRseg ==
  [last_page_no |-> FIL_NULL, last_commit |-> 0, last_offset |-> 0,
   needs_purge |-> 0, trx_ref_count |-> 0, curr_size |-> 1,
   skip_allocation |-> FALSE, undo_cached |-> <<>>, space |-> 1]

\* purge_sys_t::create()
InitPurgeSys ==
  [head |-> ZeroIter, tail |-> ZeroIter, rseg |-> NoRseg,
   next_stored |-> FALSE, page_no |-> 0, offset |-> 0,
   hdr_page_no |-> 0, hdr_offset |-> 0, view |-> 0,
   m_rsegs |-> NullElement, m_iter |-> 1,
   truncate |-> [current |-> NoSpace, last |-> NoSpace]]

InitBatch ==
  [n_pages_handled |-> 0, i |-> 0, thr |-> 1, table_id_map |-> EmptyMap,
   n_purge_threads |-> 1, batch_size |-> 1, tasks |-> {}]

\* The srv_* globals: one undo tablespace, innodb_undo_log_truncate off, no
\* innodb_max_purge_lag, innodb_fast_shutdown = 1, the server running.
InitSrv ==
  [undo_tablespaces_active |-> 1, undo_log_truncate |-> FALSE,
   max_undo_log_size |-> UndoThreshold, undo_sources |-> TRUE,
   fast_shutdown |-> 1, shutdown_state |-> SRV_SHUTDOWN_NONE,
   max_purge_lag |-> 0, max_purge_lag_delay |-> 0, dml_needed_delay |-> 0]

InitProbe == [len |-> 0, done |-> FALSE]

Init ==
  /\ max_trx_id = 1
  /\ trxs = {}
  /\ views = {}
  /\ rseg_array = [r \in Rsegs |-> InitRseg]
  /\ rseg_hdr = [r \in Rsegs |-> [history |-> <<>>, history_size |-> 0]]
  /\ undo_segs = EmptyMap
  /\ rseg_history_len = 0
  /\ purge_queue = <<>>
  /\ purge_sys = InitPurgeSys
  /\ pc = "idle"
  /\ batch = InitBatch
  /\ nodes = [k \in 1..MaxThreads |-> <<>>]
  /\ srv = InitSrv
  /\ spaces = [s \in 1..1 |-> [size |-> SRV_UNDO_TABLESPACE_SIZE_IN_PAGES]]
  /\ probe = InitProbe
  /\ ghost = InitGhost
  /\ sync = InitSync

\* ------------------------------------------------------------ transactions
\* The undo records a transaction may have written when it commits: a
\* sequence of table ids; record k has undo_no k - 1 and lies on page
\* RecPage(k) of the undo log (1 = the header page). Table ids being
\* interchangeable, a log of several records starts with table 1.
UndoShapes ==
  {s \in UNION { [1..n -> Tables] : n \in 0..MaxRecs } :
     Len(s) >= 2 => s[1] = 1}
RecPage(k) == ((k - 1) \div PageCapacity) + 1
ShapeSize(s) == IF Len(s) = 0 THEN 1 ELSE RecPage(Len(s))

\* trx_undo_set_state_at_finish(): an undo segment of one page is cached for
\* reuse, a larger one is to be freed by purge.
trx_undo_set_state_at_finish(size) ==
  IF size = 1 THEN TRX_UNDO_CACHED ELSE TRX_UNDO_TO_PURGE

\* A transaction starts and is assigned an undo log in rollback segment r
\* (trx_assign_rseg_low, trx_undo_assign_low): a cached undo segment is
\* reused when there is one, else a segment of one page is created.
trx_start(r, max_id, max_active) ==
  /\ max_trx_id < max_id
  /\ Cardinality(trxs) < max_active
  /\ ~rseg_array[r].skip_allocation
  /\ LET id == max_trx_id
         rseg == rseg_array[r]
         reuse == rseg.undo_cached # <<>>
         seg == IF reuse THEN Head(rseg.undo_cached).seg ELSE id
     IN /\ max_trx_id' = id + 1
        /\ trxs' = trxs \cup {[id |-> id, rseg |-> r, seg |-> seg]}
        /\ rseg_array' = [rseg_array EXCEPT ![r] =
             [rseg EXCEPT
                !.trx_ref_count = @ + 1,
                !.needs_purge = IF @ <= id THEN id + 1 ELSE @,
                !.curr_size = IF reuse THEN @ ELSE @ + 1,
                !.undo_cached = IF reuse THEN Tail(@) ELSE @]]
        /\ undo_segs' =
             IF reuse
             THEN [undo_segs EXCEPT ![seg].state = TRX_UNDO_ACTIVE,
                                    ![seg].nlogs = @ + 1]
             ELSE (seg :> [state |-> TRX_UNDO_ACTIVE, size |-> 1,
                           nlogs |-> 1, rseg |-> r]) @@ undo_segs
  /\ UNCHANGED <<views, rseg_hdr, rseg_history_len, purge_queue, purge_sys,
                 pc, batch, nodes, srv, spaces, probe, sync, ghost>>

TrxStart(r) == trx_start(r, MaxTrxId, MaxActive)

\* trx_purge_add_undo_to_history() that leaves last_page_no and the last
\* commit of the rollback segment as they are (lines 309-313 left out).
add_undo_to_history_no_last(st, trx_id, trx_no, undo) ==
  LET hdr1 == IF undo.state # TRX_UNDO_CACHED
              THEN [st.hdr EXCEPT !.history_size = @ + undo.size]
              ELSE st.hdr
      log == [trx_no |-> trx_no, trx_id |-> trx_id, page |-> undo.hdr_page_no,
              boffset |-> undo.hdr_offset, seg |-> undo.seg,
              recs |-> undo.recs, start |-> 0]
      hdr2 == [hdr1 EXCEPT !.history = <<log>> \o @]
      rseg2 == IF undo.state = TRX_UNDO_CACHED
               THEN [st.rseg EXCEPT !.undo_cached =
                       <<[seg |-> undo.seg, trx_id |-> trx_id,
                          size |-> undo.size]>> \o @]
               ELSE st.rseg
  IN [rseg |-> rseg2, hdr |-> hdr2, len |-> st.len + 1]

\* trx_purge_add_undo_to_history() with the log added as the last of the
\* history list (flst_add_last).
add_undo_to_history_last(st, trx_id, trx_no, undo) ==
  LET hdr1 == IF undo.state # TRX_UNDO_CACHED
              THEN [st.hdr EXCEPT !.history_size = @ + undo.size]
              ELSE st.hdr
      log == [trx_no |-> trx_no, trx_id |-> trx_id, page |-> undo.hdr_page_no,
              boffset |-> undo.hdr_offset, seg |-> undo.seg,
              recs |-> undo.recs, start |-> 0]
      hdr2 == [hdr1 EXCEPT !.history = @ \o <<log>>]
      rseg1 == IF st.rseg.last_page_no = FIL_NULL
               THEN set_last_commit(
                      [st.rseg EXCEPT !.last_page_no = undo.hdr_page_no],
                      undo.hdr_offset, trx_no)
               ELSE st.rseg
      rseg2 == IF undo.state = TRX_UNDO_CACHED
               THEN [rseg1 EXCEPT !.undo_cached =
                       <<[seg |-> undo.seg, trx_id |-> trx_id,
                          size |-> undo.size]>> \o @]
               ELSE rseg1
  IN [rseg |-> rseg2, hdr |-> hdr2, len |-> st.len + 1]

\* trx_purge_add_undo_to_history(): st is [rseg, hdr, len], undo the
\* trx_undo_t after trx_undo_set_state_at_finish().
trx_purge_add_undo_to_history(st, trx_id, trx_no, undo) ==
  LET hdr1 == IF undo.state # TRX_UNDO_CACHED
              THEN [st.hdr EXCEPT !.history_size = @ + undo.size]
              ELSE st.hdr
      log == [trx_no |-> trx_no, trx_id |-> trx_id, page |-> undo.hdr_page_no,
              boffset |-> undo.hdr_offset, seg |-> undo.seg,
              recs |-> undo.recs, start |-> 0]
      hdr2 == [hdr1 EXCEPT !.history = <<log>> \o @]
      rseg1 == IF st.rseg.last_page_no = FIL_NULL
               THEN set_last_commit(
                      [st.rseg EXCEPT !.last_page_no = undo.hdr_page_no],
                      undo.hdr_offset, trx_no)
               ELSE st.rseg
      rseg2 == IF undo.state = TRX_UNDO_CACHED
               THEN [rseg1 EXCEPT !.undo_cached =
                       <<[seg |-> undo.seg, trx_id |-> trx_id,
                          size |-> undo.size]>> \o @]
               ELSE rseg1
  IN [rseg |-> rseg2, hdr |-> hdr2, len |-> st.len + 1]

\* Commit of transaction t (trx_write_serialisation_history, under the
\* rollback segment mutex): trx_serialise() assigns trx_no and queues the
\* rollback segment for purge if it has no unpurged log, then the undo log
\* goes to the history list and the transaction releases the segment.
trx_commit(t, recs, max_id) ==
  /\ t \in trxs
  /\ max_trx_id < max_id
  /\ recs \in UndoShapes
  /\ LET r == t.rseg
         no == max_trx_id
         seg == undo_segs[t.seg]
         size == ShapeSize(recs)
         state == trx_undo_set_state_at_finish(size)
         undo == [state |-> state, size |-> size, seg |-> t.seg,
                  hdr_page_no |-> PageNo(t.seg, 1), hdr_offset |-> seg.nlogs,
                  recs |-> recs]
         grown == [rseg_array[r] EXCEPT !.curr_size = @ + (size - seg.size)]
         st == trx_purge_add_undo_to_history(
                 [rseg |-> grown, hdr |-> rseg_hdr[r],
                  len |-> rseg_history_len], t.id, no, undo)
     IN /\ max_trx_id' = no + 1
        /\ purge_queue' = IF rseg_array[r].last_page_no = FIL_NULL
                          THEN purge_queue_push(purge_queue,
                                                TrxUndoRsegs(no, r))
                          ELSE purge_queue
        /\ undo_segs' = [undo_segs EXCEPT ![t.seg].state = state,
                                          ![t.seg].size = size]
        /\ rseg_array' = [rseg_array EXCEPT ![r] =
                            [st.rseg EXCEPT !.trx_ref_count = @ - 1]]
        /\ rseg_hdr' = [rseg_hdr EXCEPT ![r] = st.hdr]
        /\ rseg_history_len' = st.len
        /\ trxs' = trxs \ {t}
  /\ UNCHANGED <<views, purge_sys, pc, batch, nodes, srv, spaces, probe, sync,
                 ghost>>

TrxCommit(t, recs) == trx_commit(t, recs, MaxTrxId)

\* A read view is opened (ReadView::open): it may need every change of a
\* transaction whose trx_no is not below the view's low_limit_no.
ViewOpen ==
  /\ Cardinality(views) < MaxViews
  /\ views' = views \cup {max_trx_id}
  /\ UNCHANGED <<max_trx_id, trxs, rseg_array, rseg_hdr, undo_segs,
                 rseg_history_len, purge_queue, purge_sys, pc, batch, nodes,
                 srv, spaces, probe, sync, ghost>>

ViewClose(v) ==
  /\ v \in views
  /\ views' = views \ {v}
  /\ UNCHANGED <<max_trx_id, trxs, rseg_array, rseg_hdr, undo_segs,
                 rseg_history_len, purge_queue, purge_sys, pc, batch, nodes,
                 srv, spaces, probe, sync, ghost>>

\* clone_oldest_view() that copies only the open read views: with none open
\* the purge view is the empty view.
clone_open_views_only(ps) ==
  [ps EXCEPT !.view = IF views = {} THEN 0 ELSE Min(views)]

\* purge_sys_t::clone_oldest_view(): the purge view is the oldest of the
\* open read views and of a view opened now.
clone_oldest_view(ps) == [ps EXCEPT !.view = Min(views \cup {max_trx_id})]

\* ------------------------------------------------------------ the iterator
\* The operators below thread the state that a fetch reads and writes:
\* st = [ps: purge_sys, rs: rseg_array, pq: purge_queue, n: n_pages_handled,
\*       pop: the last element taken, ok: a bool result, rec: a record result].

\* The undo log that rollback segment r's last_page_no/last_offset designate.
LastLog(rs, r) ==
  rseg_hdr[r].history[LogIndex(rseg_hdr[r], rs[r].last_page_no,
                               last_offset(rs[r]))]

\* Rollback segment r has a log to purge: last_page_no names a log on its
\* history list whose trx_no is last_trx_no() (what the assertions of lines
\* 112-113 test of the rollback segment that set_next() selects).
has_unpurged(rs, r) ==
  /\ rs[r].last_page_no # FIL_NULL
  /\ \E k \in DOMAIN rseg_hdr[r].history :
       /\ rseg_hdr[r].history[k].page = rs[r].last_page_no
       /\ rseg_hdr[r].history[k].boffset = last_offset(rs[r])
       /\ rseg_hdr[r].history[k].trx_no = last_trx_no(rs[r])

\* The undo log the purge cursor is in (hdr_page_no, hdr_offset).
CursorLog(ps) ==
  rseg_hdr[ps.rseg].history[LogIndex(rseg_hdr[ps.rseg], ps.hdr_page_no,
                                     ps.hdr_offset)]

\* set_next() taking the back of the queue's container instead of top().
set_next_back(pq) ==
  [elem |-> pq[Len(pq)], rest |-> SubSeq(pq, 1, Len(pq) - 1)]

\* set_next(): the element taken from the purge queue (top(), then pop()),
\* and the queue without it.
set_next_top(pq) ==
  [elem |-> purge_queue_top(pq), rest |-> purge_queue_pop(pq)]

\* TrxUndoRsegsIterator::set_next()
set_next(st0) ==
  CHOOSE res \in {
      LET ps == st.ps
          more == ps.m_iter <= Len(ps.m_rsegs.rsegs)
      IN IF ~more /\ st.pq = <<>>
         THEN [st EXCEPT !.ps.rseg = NoRseg, !.ps.m_rsegs = NullElement,
                         !.ps.m_iter = 1, !.ok = FALSE]
         ELSE
           LET st1 ==
                 IF more
                 THEN [st EXCEPT !.ps.tail.trx_no =
                         last_trx_no(st.rs[ps.m_rsegs.rsegs[ps.m_iter]])]
                 ELSE [st EXCEPT
                         !.ps.m_rsegs = set_next_top(st.pq).elem,
                         !.ps.m_iter = 1,
                         !.pq = set_next_top(st.pq).rest,
                         !.pop = [@ EXCEPT
                                    !.trx_no = set_next_top(st.pq).elem.trx_no,
                                    !.least = Min({st.pq[k].trx_no :
                                                     k \in 1..Len(st.pq)}),
                                    !.n = Len(st.pq)]]
               r == st1.ps.m_rsegs.rsegs[st1.ps.m_iter]
           IN [st1 EXCEPT !.ps.rseg = r,
                          !.ps.m_iter = @ + 1,
                          !.ps.tail.trx_no = last_trx_no(st1.rs[r]),
                          !.ps.hdr_offset = last_offset(st1.rs[r]),
                          !.ps.hdr_page_no = st1.rs[r].last_page_no,
                          !.pop.sel = @ /\ has_unpurged(st1.rs, r),
                          !.pop.tail_ok =
                            @ /\ st1.ps.tail.trx_no <= last_trx_no(st1.rs[r]),
                          !.ok = TRUE]
    : st \in {st0}} : TRUE

\* trx_purge_read_undo_rec()
trx_purge_read_undo_rec(st0) ==
  CHOOSE res \in {
      LET r == st.ps.rseg
          log == LastLog(st.rs, r)
          first == st.rs[r].needs_purge # 0 /\ log.start < Len(log.recs)
      IN [st EXCEPT
            !.ps.hdr_offset = last_offset(st.rs[r]),
            !.ps.hdr_page_no = st.rs[r].last_page_no,
            !.ps.offset = IF first THEN log.start + 1 ELSE 0,
            !.ps.page_no = IF first
                           THEN PageNo(log.seg, RecPage(log.start + 1))
                           ELSE st.rs[r].last_page_no,
            !.ps.tail.undo_no = IF first THEN log.start ELSE 0,
            !.ps.next_stored = TRUE]
    : st \in {st0}} : TRUE

\* trx_purge_choose_next_log() that finds nothing to do: set_next() is not
\* called and no undo record is read.
choose_next_log_idle(st) == [st EXCEPT !.ok = FALSE]

\* trx_purge_choose_next_log()
trx_purge_choose_next_log(st) ==
  CHOOSE res \in {IF s1.ok THEN trx_purge_read_undo_rec(s1) ELSE s1 :
                    s1 \in {set_next(st)}} : TRUE

\* trx_purge_rseg_get_next_history_log() that queues the rollback segment
\* again without moving last_page_no and the last commit to the previous log.
get_next_history_log_in_place(st) ==
  LET r == st.ps.rseg
      rseg == st.rs[r]
      k == LogIndex(rseg_hdr[r], rseg.last_page_no, last_offset(rseg))
      st1 == [st EXCEPT !.ps.tail = [trx_no |-> last_trx_no(rseg) + 1,
                                     undo_no |-> 0],
                        !.ps.next_stored = FALSE,
                        !.n = @ + 1]
  IN IF k = 1
     THEN [st1 EXCEPT !.rs[r].last_page_no = FIL_NULL]
     ELSE [st1 EXCEPT
             !.pq = purge_queue_push(st.pq,
                      TrxUndoRsegs(rseg_hdr[r].history[k - 1].trx_no, r))]

\* trx_purge_rseg_get_next_history_log() without the purge_queue.push of
\* lines 883-887: the rollback segment moves to its previous log and is not
\* queued again.
get_next_history_log_no_push(st0) ==
  CHOOSE res \in {
      LET r == st.ps.rseg
          rseg == st.rs[r]
          k == LogIndex(rseg_hdr[r], rseg.last_page_no, last_offset(rseg))
          prev == rseg_hdr[r].history[k - 1]
          st1 == [st EXCEPT !.ps.tail = [trx_no |-> last_trx_no(rseg) + 1,
                                         undo_no |-> 0],
                            !.ps.next_stored = FALSE,
                            !.n = @ + 1]
      IN IF k = 1
         THEN [st1 EXCEPT !.rs[r].last_page_no = FIL_NULL]
         ELSE [st1 EXCEPT
                 !.rs[r] = set_last_commit([rseg EXCEPT !.last_page_no = prev.page],
                                           prev.boffset, prev.trx_no)]
      : st \in {st0}} : TRUE

\* trx_purge_rseg_get_next_history_log()
trx_purge_rseg_get_next_history_log(st0) ==
  CHOOSE res \in {
      LET r == st.ps.rseg
          rseg == st.rs[r]
          k == LogIndex(rseg_hdr[r], rseg.last_page_no, last_offset(rseg))
          empty == k = 1
          prev == rseg_hdr[r].history[k - 1]
          st1 == [st EXCEPT !.ps.tail = [trx_no |-> last_trx_no(rseg) + 1,
                                         undo_no |-> 0],
                            !.ps.next_stored = FALSE,
                            !.n = @ + 1]
      IN IF empty
         THEN [st1 EXCEPT !.rs[r].last_page_no = FIL_NULL]
         ELSE [st1 EXCEPT
                 !.rs[r] = set_last_commit([rseg EXCEPT !.last_page_no = prev.page],
                                           prev.boffset, prev.trx_no),
                 !.pq = purge_queue_push(st.pq, TrxUndoRsegs(prev.trx_no, r))]
    : st \in {st0}} : TRUE

\* trx_purge_get_next_rec()
trx_purge_get_next_rec(st0) ==
  CHOOSE res \in {
      LET ps == st.ps
          offset == ps.offset
      IN IF offset = 0
         THEN [trx_purge_choose_next_log(trx_purge_rseg_get_next_history_log(st))
                 EXCEPT !.rec = trx_purge_dummy_rec]
         ELSE
           LET log == CursorLog(ps)
               rec_copy == [kind |-> "rec", rseg |-> ps.rseg,
                            trx_no |-> log.trx_no, undo_no |-> offset - 1,
                            table |-> log.recs[offset]]
               rec2 == offset < Len(log.recs)
           IN IF ~rec2
              THEN [trx_purge_choose_next_log(
                      trx_purge_rseg_get_next_history_log(st))
                      EXCEPT !.rec = rec_copy]
              ELSE [st EXCEPT
                      !.ps.offset = offset + 1,
                      !.ps.page_no = PageNo(log.seg, RecPage(offset + 1)),
                      !.ps.tail.undo_no = offset,
                      !.n = IF RecPage(offset + 1) # RecPage(offset)
                            THEN @ + 1 ELSE @,
                      !.rec = rec_copy]
    : st \in {st0}} : TRUE

\* trx_purge_fetch_next_rec()
trx_purge_fetch_next_rec(st) ==
  CHOOSE res \in {
    IF ~st1.ps.next_stored
    THEN [st1 EXCEPT !.rec = NullRec]
    ELSE IF st1.ps.tail.trx_no >= low_limit_no(st1.ps)
         THEN [st1 EXCEPT !.rec = NullRec]
         ELSE trx_purge_get_next_rec(st1)
    : st1 \in {IF ~st.ps.next_stored
                THEN trx_purge_choose_next_log(st) ELSE st}} : TRUE

\* ---------------------------------------------------------- the purge batch
\* trx_purge_dml_delay() with delay = (ratio - 1) * 10000.
dml_delay_from_excess(history_len, max_purge_lag, max_purge_lag_delay) ==
  IF max_purge_lag > 0
  THEN LET delay == IF history_len > max_purge_lag
                    THEN ((history_len - max_purge_lag) * 10000)
                           \div max_purge_lag
                    ELSE 0
       IN IF delay > max_purge_lag_delay THEN max_purge_lag_delay ELSE delay
  ELSE 0

\* trx_purge_dml_delay() that returns the delay without the comparison with
\* srv_max_purge_lag_delay.
dml_delay_unclamped(history_len, max_purge_lag, max_purge_lag_delay) ==
  IF max_purge_lag > 0 /\ history_len > max_purge_lag
  THEN ((2 * history_len - max_purge_lag) * 5000) \div max_purge_lag
  ELSE 0

\* trx_purge_dml_delay(): ratio = history_len / max_purge_lag in double
\* arithmetic; ratio > 1.0 is history_len > max_purge_lag, and
\* (ulint) ((ratio - .5) * 10000) is the integer part of
\* (2 * history_len - max_purge_lag) * 5000 / max_purge_lag (the double
\* arithmetic gives exactly this for max_purge_lag below 20).
trx_purge_dml_delay(history_len, max_purge_lag, max_purge_lag_delay) ==
  IF max_purge_lag > 0
  THEN LET delay == IF history_len > max_purge_lag
                    THEN ((2 * history_len - max_purge_lag) * 5000)
                           \div max_purge_lag
                    ELSE 0
       IN IF delay > max_purge_lag_delay THEN max_purge_lag_delay ELSE delay
  ELSE 0

\* The tasks of the execute phase of trx_purge() without the bucket that the
\* coordinator runs itself.
purge_tasks_workers_only(n_tasks) == 1..(n_tasks - 1)

\* trx_purge(): the nodes that are run in the execute phase: n_tasks - 1 are
\* submitted to the workers (nodes 1..n_tasks - 1, in the order of
\* que_fork_scheduler_round_robin) and the coordinator runs the next one.
purge_tasks(n_tasks) == 1..n_tasks

\* trx_purge(), up to the start of the fetch loop of
\* trx_purge_attach_undo_recs(): the purge view is cloned, head is set to
\* tail and the locals of the attach phase are initialised.
TrxPurgeStart(n_tasks, batch_size) ==
  /\ pc \in {"idle", "batch_done"}
  /\ LET ps1 == clone_oldest_view(purge_sys)
     IN purge_sys' = [ps1 EXCEPT !.head = ps1.tail]
  /\ srv' = [srv EXCEPT !.dml_needed_delay =
                trx_purge_dml_delay(rseg_history_len, srv.max_purge_lag,
                                    srv.max_purge_lag_delay)]
  /\ batch' = [n_pages_handled |-> 0, i |-> 0, thr |-> 1,
               table_id_map |-> EmptyMap, n_purge_threads |-> n_tasks,
               batch_size |-> batch_size, tasks |-> {}]
  /\ ghost' = [ghost EXCEPT !.fetched = <<>>, !.removals = <<>>,
                            !.cut = FALSE,
                            !.prev_view = low_limit_no(purge_sys)]
  /\ pc' = "attach"
  /\ UNCHANGED <<max_trx_id, trxs, views, rseg_array, rseg_hdr, undo_segs,
                 rseg_history_len, purge_queue, nodes, spaces, probe, sync>>

\* The routing without the lookup in table_id_map: every record moves on to
\* the next node.
attach_assign_no_map(b, table_id) ==
  LET next == IF (b.i + 1) % b.n_purge_threads = 0
              THEN 1
              ELSE IF b.thr < MaxThreads THEN b.thr + 1 ELSE 0
  IN [node |-> b.thr,
      b |-> [b EXCEPT !.thr = next, !.i = @ + 1,
                      !.table_id_map = (table_id :> b.thr) @@ @]]

\* The routing that wraps at the end of purge_sys.query->thrs instead of at
\* n_purge_threads.
attach_assign_no_wrap(b, table_id) ==
  IF table_id \in DOMAIN b.table_id_map
  THEN [node |-> b.table_id_map[table_id], b |-> b]
  ELSE LET next == IF b.thr < MaxThreads THEN b.thr + 1 ELSE 1
       IN [node |-> b.thr,
           b |-> [b EXCEPT !.thr = next, !.i = @ + 1,
                           !.table_id_map = (table_id :> b.thr) @@ @]]

\* trx_purge_attach_undo_recs(): the node a record of table_id goes to, and
\* the locals after it: [node, b].
attach_assign(b, table_id) ==
  IF table_id \in DOMAIN b.table_id_map
  THEN [node |-> b.table_id_map[table_id], b |-> b]
  ELSE LET next == IF (b.i + 1) % b.n_purge_threads = 0
                   THEN 1
                   ELSE IF b.thr < MaxThreads THEN b.thr + 1 ELSE 0
       IN [node |-> b.thr,
           b |-> [b EXCEPT !.thr = next, !.i = @ + 1,
                           !.table_id_map = (table_id :> b.thr) @@ @]]

\* One iteration of the loop of trx_purge_attach_undo_recs(); when the loop
\* ends, trx_purge() hands the nodes to the tasks of the execute phase.
AttachStep ==
  /\ pc = "attach"
  /\ IF ~(srv.undo_sources \/ srv.fast_shutdown = 0)
     THEN /\ pc' = "execute"
          /\ batch' = [batch EXCEPT !.tasks = purge_tasks(batch.n_purge_threads)]
          /\ ghost' = [ghost EXCEPT !.prev_view = NoView]
          /\ UNCHANGED <<purge_sys, rseg_array, purge_queue, nodes>>
     ELSE
     \E st \in {trx_purge_fetch_next_rec(
                   [ps |-> IF iterator_le(purge_sys.head, purge_sys.tail)
                           THEN [purge_sys EXCEPT !.head = purge_sys.tail]
                           ELSE purge_sys,
                    rs |-> rseg_array, pq |-> purge_queue,
                    n |-> batch.n_pages_handled, pop |-> ghost.popped,
                    ok |-> TRUE, rec |-> NullRec])} :
     LET b1 == [batch EXCEPT !.n_pages_handled = st.n]
         b2 == [b1 EXCEPT !.tasks = purge_tasks(batch.n_purge_threads)]
     IN /\ purge_sys' = st.ps
        /\ rseg_array' = st.rs
        /\ purge_queue' = st.pq
        /\ IF st.rec = NullRec
           THEN /\ pc' = "execute"
                /\ batch' = b2
                /\ ghost' = [ghost EXCEPT !.popped = st.pop, !.prev_view = NoView]
                /\ UNCHANGED nodes
           ELSE IF st.rec = trx_purge_dummy_rec
           THEN /\ pc' = "attach"
                /\ batch' = b1
                /\ ghost' = [ghost EXCEPT !.popped = st.pop, !.prev_view = NoView]
                /\ UNCHANGED nodes
           ELSE LET a == attach_assign(b1, st.rec.table)
                    done == st.n >= batch.batch_size
                IN /\ batch' = IF done
                               THEN [a.b EXCEPT !.tasks =
                                       purge_tasks(batch.n_purge_threads)]
                               ELSE a.b
                   /\ nodes' = [nodes EXCEPT ![a.node] = Append(@, st.rec)]
                   /\ ghost' = [ghost EXCEPT
                                  !.popped = st.pop,
                                  !.prev_view = NoView,
                                  !.cut = done,
                                  !.fetched = Append(@, [rec |-> st.rec,
                                                         node |-> a.node]),
                                  !.done = @ \cup {<<st.rec.rseg,
                                                     st.rec.trx_no,
                                                     st.rec.undo_no>>}]
                   /\ pc' = IF done THEN "execute" ELSE "attach"
  /\ UNCHANGED <<max_trx_id, trxs, views, rseg_hdr, undo_segs,
                 rseg_history_len, srv, spaces, probe, sync>>

\* purge_worker_task: a worker takes one of the submitted tasks and executes
\* the undo records of its node.
WorkerRun(k) ==
  /\ pc = "execute"
  /\ k \in batch.tasks
  /\ k < batch.n_purge_threads
  /\ nodes' = [nodes EXCEPT ![k] = <<>>]
  /\ batch' = [batch EXCEPT !.tasks = @ \ {k}]
  /\ UNCHANGED <<max_trx_id, trxs, views, rseg_array, rseg_hdr, undo_segs,
                 rseg_history_len, purge_queue, purge_sys, pc, srv, spaces,
                 probe, sync, ghost>>

\* que_run_threads() in trx_purge(): the coordinator executes the undo
\* records of the node that follows the submitted ones.
CoordinatorRun ==
  /\ pc = "execute"
  /\ batch.n_purge_threads \in batch.tasks
  /\ nodes' = [nodes EXCEPT ![batch.n_purge_threads] = <<>>]
  /\ batch' = [batch EXCEPT !.tasks = @ \ {batch.n_purge_threads}]
  /\ UNCHANGED <<max_trx_id, trxs, views, rseg_array, rseg_hdr, undo_segs,
                 rseg_history_len, purge_queue, purge_sys, pc, srv, spaces,
                 probe, sync, ghost>>

\* trx_purge() returns once the coordinator has run its node and
\* trx_purge_wait_for_workers_to_complete() has returned.
TrxPurgeEnd ==
  /\ pc = "execute"
  /\ batch.tasks = {}
  /\ pc' = "batch_done"
  /\ batch' = InitBatch
  /\ ghost' = [ghost EXCEPT !.popped = NoPop]
  /\ UNCHANGED <<max_trx_id, trxs, views, rseg_array, rseg_hdr, undo_segs,
                 rseg_history_len, purge_queue, purge_sys, nodes, srv, spaces,
                 probe, sync>>

\* ------------------------------------------------------ history truncation
\* The operators below thread st = [rs: rseg_array, hdr: rseg_hdr,
\* segs: undo_segs, len: rseg_history_len, ev: removals].

\* TRX_UNDO_NEXT_LOG of a log header: a later log exists in the same segment.
next_log(segs, log) == IF log.boffset < segs[log.seg].nlogs THEN 1 ELSE 0

\* The removal of log (the last of r's history list) as recorded in removals.
RemovalEvent(st, st2, r, log, limit, whole) ==
  [rseg |-> r, seg |-> log.seg, trx_no |-> log.trx_no, whole |-> whole,
   state |-> st.segs[log.seg].state, next_log |-> next_log(st.segs, log),
   trx_ref_count |-> st.rs[r].trx_ref_count, limit |-> limit,
   seg_size |-> st.segs[log.seg].size,
   curr_size |-> <<st.rs[r].curr_size, st2.rs[r].curr_size>>,
   history_size |-> <<st.hdr[r].history_size, st2.hdr[r].history_size>>,
   len |-> <<st.len, st2.len>>,
   kept |-> log.seg \in DOMAIN st2.segs /\ st2.segs[log.seg] = st.segs[log.seg]]

\* trx_purge_remove_log_hdr(): the last log of r's history list leaves it.
trx_purge_remove_log_hdr(st, r) ==
  [st EXCEPT !.hdr[r].history = SubSeq(@, 1, Len(@) - 1),
             !.len = @ - 1]

\* trx_purge_free_segment() that leaves rseg->curr_size as it is.
trx_purge_free_segment_keep_size(st, r) ==
  LET log == st.hdr[r].history[Len(st.hdr[r].history)]
      seg_size == st.segs[log.seg].size
      st2 == trx_purge_remove_log_hdr(st, r)
  IN [st2 EXCEPT !.hdr[r].history_size = @ - seg_size,
                 !.segs = [x \in DOMAIN st.segs \ {log.seg} |-> st.segs[x]]]

\* trx_purge_free_segment(): the segment of the last log of r's history list
\* is freed and the log header removed.
trx_purge_free_segment(st, r) ==
  LET log == st.hdr[r].history[Len(st.hdr[r].history)]
      seg_size == st.segs[log.seg].size
      st1 == [st EXCEPT !.rs[r].curr_size = @ - seg_size]
      st2 == trx_purge_remove_log_hdr(st1, r)
  IN [st2 EXCEPT !.hdr[r].history_size = @ - seg_size,
                 !.segs = [x \in DOMAIN st.segs \ {log.seg} |-> st.segs[x]]]

\* trx_undo_truncate_start(): in the last log of r's history list, the undo
\* pages whose records all have undo_no < limit are emptied (the header
\* page) or freed (the others).
RECURSIVE trx_undo_truncate_start(_, _, _)
trx_undo_truncate_start(st, r, limit) ==
  LET h == st.hdr[r].history
      log == h[Len(h)]
  IN IF log.start >= Len(log.recs)
     THEN st
     ELSE
       LET pg == RecPage(log.start + 1)
           last == Max({j \in 1..Len(log.recs) : RecPage(j) = pg})
       IN IF last - 1 >= limit
          THEN st
          ELSE IF pg = 1
          THEN trx_undo_truncate_start(
                 [st EXCEPT !.hdr[r].history[Len(h)].start = last], r, limit)
          ELSE trx_undo_truncate_start(
                 [st EXCEPT !.hdr[r].history[Len(h)].start = last,
                            !.hdr[r].history_size = @ - 1,
                            !.rs[r].curr_size = @ - 1,
                            !.segs[log.seg].size = @ - 1], r, limit)

\* The test without the TRX_UNDO_STATE comparison.
truncate_frees_any_state(segs, log) == next_log(segs, log) = 0

\* trx_purge_truncate_rseg_history(): whether the whole segment of the log
\* is freed rather than its header removed.
truncate_frees_segment(segs, log) ==
  segs[log.seg].state = TRX_UNDO_TO_PURGE /\ next_log(segs, log) = 0

\* A variant that also removes the log whose trx_no is that of the limit.
RECURSIVE truncate_rseg_history_through_limit(_, _, _, _)
truncate_rseg_history_through_limit(st, r, limit, all) ==
  LET h == st.hdr[r].history
      log == h[Len(h)]
  IN IF h = <<>>
     THEN st
     ELSE IF log.trx_no > limit.trx_no
     THEN st
     ELSE IF ~all
     THEN st
     ELSE LET whole == truncate_frees_segment(st.segs, log)
              st2 == IF whole
                     THEN trx_purge_free_segment(st, r)
                     ELSE trx_purge_remove_log_hdr(st, r)
              st3 == [st2 EXCEPT !.ev =
                        Append(@, RemovalEvent(st, st2, r, log, limit, whole))]
          IN truncate_rseg_history_through_limit(st3, r, limit, all)

\* trx_purge_truncate_rseg_history()
RECURSIVE trx_purge_truncate_rseg_history(_, _, _, _)
trx_purge_truncate_rseg_history(st, r, limit, all) ==
  LET h == st.hdr[r].history
      log == h[Len(h)]
  IN IF h = <<>>
     THEN st
     ELSE IF log.trx_no >= limit.trx_no
     THEN IF log.trx_no = limit.trx_no
          THEN trx_undo_truncate_start(st, r, limit.undo_no)
          ELSE st
     ELSE IF ~all
     THEN st
     ELSE LET whole == truncate_frees_segment(st.segs, log)
              st2 == IF whole
                     THEN trx_purge_free_segment(st, r)
                     ELSE trx_purge_remove_log_hdr(st, r)
              st3 == [st2 EXCEPT !.ev =
                        Append(@, RemovalEvent(st, st2, r, log, limit, whole))]
          IN trx_purge_truncate_rseg_history(st3, r, limit, all)

\* trx_purge_truncate_history(): whether everything of rollback segment r
\* can be truncated.
truncate_all(ps, rseg) == rseg.trx_ref_count = 0 /\ sees(ps, rseg.needs_purge)

\* The limit without the clamp to the purge view.
truncate_limit_unclamped(ps) ==
  IF ps.head.trx_no # 0 THEN ps.head ELSE ps.tail

\* trx_purge_truncate_history(): the limit, head or (when head.trx_no is 0)
\* tail, kept below the purge view; the iterator it refers to is updated.
truncate_limit(ps) ==
  LET head == IF ps.head.trx_no # 0 THEN ps.head ELSE ps.tail
  IN IF head.trx_no >= low_limit_no(ps)
     THEN [trx_no |-> low_limit_no(ps), undo_no |-> 0]
     ELSE head

\* The loop over trx_sys.rseg_array that ends one rollback segment early.
RECURSIVE truncate_rsegs_but_last(_, _, _)
truncate_rsegs_but_last(st, i, ps) ==
  IF i + 1 \notin DOMAIN st.rs
  THEN st
  ELSE truncate_rsegs_but_last(
         trx_purge_truncate_rseg_history(st, i, truncate_limit(ps),
                                         truncate_all(ps, st.rs[i])),
         i + 1, ps)

\* trx_purge_truncate_history(): the loop over trx_sys.rseg_array.
RECURSIVE truncate_rsegs(_, _, _)
truncate_rsegs(st, i, ps) ==
  IF i \notin DOMAIN st.rs
  THEN st
  ELSE truncate_rsegs(
         trx_purge_truncate_rseg_history(st, i, truncate_limit(ps),
                                         truncate_all(ps, st.rs[i])),
         i + 1, ps)

\* ------------------------------------------------- undo tablespace truncation
\* The operators below thread the same st, with the fields ps: purge_sys,
\* pq: purge_queue, sp: spaces, srv: srv, att: the attempts of the call and
\* ok: a bool result. Undo tablespace s has space id
\* srv_undo_space_id_start + s - 1.

\* The scan for a tablespace to truncate: index i (from 0), started at j.
RECURSIVE truncate_scan(_, _, _)
truncate_scan(st, i, j) ==
  IF st.sp[i + 1].size > st.srv.max_undo_log_size
  THEN i + 1
  ELSE LET i1 == (i + 1) % st.srv.undo_tablespaces_active
       IN IF i1 = j THEN NoSpace ELSE truncate_scan(st, i1, j)

\* The index the scan starts at.
truncate_scan_start(ps) ==
  IF ps.truncate.last # NoSpace THEN ps.truncate.last - 1 ELSE 0

\* The pages of the cached undo logs of a rollback segment.
RECURSIVE cached_size(_)
cached_size(undo_cached) ==
  IF undo_cached = <<>>
  THEN 0
  ELSE Head(undo_cached).size + cached_size(Tail(undo_cached))

\* A variant that does not test whether the purge view sees needs_purge.
truncate_rseg_free_unseen(st, r, head) ==
  LET rseg == st.rs[r]
  IN /\ rseg.trx_ref_count = 0
     /\ \A k \in 1..Len(rseg.undo_cached) :
          ~(head.trx_no # 0 /\ head.trx_no < rseg.undo_cached[k].trx_id)
     /\ ~(/\ rseg.curr_size > cached_size(rseg.undo_cached) + 1
          /\ \/ st.srv.fast_shutdown # 0
             \/ st.srv.undo_sources
             \/ st.len # 0)

\* Whether rollback segment r passes the tests made under its mutex once
\* skip_allocation is set; head is the limit of the history truncation.
truncate_rseg_free(st, r, head) ==
  LET rseg == st.rs[r]
  IN /\ ~(rseg.trx_ref_count # 0 \/ ~sees(st.ps, rseg.needs_purge))
     /\ \A k \in 1..Len(rseg.undo_cached) :
          ~(head.trx_no # 0 /\ head.trx_no < rseg.undo_cached[k].trx_id)
     /\ ~(/\ rseg.curr_size > cached_size(rseg.undo_cached) + 1
          /\ \/ st.srv.fast_shutdown # 0
             \/ st.srv.undo_sources
             \/ st.len # 0)

\* The loop that marks the rollback segments of tablespace c, from slot i
\* on: it returns at the first one that is not free.
RECURSIVE truncate_mark(_, _, _, _)
truncate_mark(st, c, i, head) ==
  IF i \notin DOMAIN st.rs
  THEN [st EXCEPT !.ok = TRUE]
  ELSE IF st.rs[i].space # c
  THEN truncate_mark(st, c, i + 1, head)
  ELSE LET st1 == [st EXCEPT !.rs[i].skip_allocation = TRUE]
       IN IF truncate_rseg_free(st1, i, head)
          THEN truncate_mark(st1, c, i + 1, head)
          ELSE [st1 EXCEPT !.ok = FALSE]

\* TrxUndoRsegs without the first of its rollback segments that resides in
\* tablespace c.
erase_first(rsegs, rs, c) ==
  LET in == {k \in 1..Len(rsegs) : rs[rsegs[k]].space = c}
  IN IF in = {}
     THEN rsegs
     ELSE SubSeq(rsegs, 1, Min(in) - 1) \o SubSeq(rsegs, Min(in) + 1, Len(rsegs))

\* trx_purge_cleanse_purge_queue(): every element is taken off the queue
\* and pushed again without its rollback segment of tablespace c, unless it
\* is then empty.
trx_purge_cleanse_purge_queue(pq, rs, c) ==
  SelectSeq([k \in 1..Len(pq) |->
               [pq[k] EXCEPT !.rsegs = erase_first(@, rs, c)]],
            LAMBDA e : e.rsegs # <<>>)

\* A variant that resets the rollback segment headers and the file size but
\* leaves needs_purge and skip_allocation of the trx_rseg_t as they are.
truncate_shrink_headers_only(st, c) ==
  LET in == {r \in DOMAIN st.rs : st.rs[r].space = c}
  IN [st EXCEPT
        !.sp[c].size = SRV_UNDO_TABLESPACE_SIZE_IN_PAGES,
        !.hdr = [r \in DOMAIN st.hdr |->
                   IF r \in in
                   THEN [history |-> <<>>, history_size |-> 0]
                   ELSE st.hdr[r]],
        !.segs = [x \in {y \in DOMAIN st.segs : st.segs[y].rseg \notin in}
                    |-> st.segs[x]],
        !.rs = [r \in DOMAIN st.rs |->
                  IF r \in in
                  THEN [st.rs[r] EXCEPT
                          !.undo_cached = <<>>,
                          !.curr_size = 1,
                          !.trx_ref_count = 0,
                          !.last_page_no = FIL_NULL,
                          !.last_commit = 0,
                          !.last_offset = 0]
                  ELSE st.rs[r]]]

\* The re-initialisation of tablespace c in one mini-transaction: the file
\* is trimmed, the header of each of its rollback segments is created anew
\* (trx_rseg_header_create) and the trx_rseg_t fields are reset.
truncate_shrink(st, c) ==
  LET in == {r \in DOMAIN st.rs : st.rs[r].space = c}
  IN [st EXCEPT
        !.sp[c].size = SRV_UNDO_TABLESPACE_SIZE_IN_PAGES,
        !.hdr = [r \in DOMAIN st.hdr |->
                   IF r \in in
                   THEN [history |-> <<>>, history_size |-> 0]
                   ELSE st.hdr[r]],
        !.segs = [x \in {y \in DOMAIN st.segs : st.segs[y].rseg \notin in}
                    |-> st.segs[x]],
        !.rs = [r \in DOMAIN st.rs |->
                  IF r \in in
                  THEN [st.rs[r] EXCEPT
                          !.undo_cached = <<>>,
                          !.curr_size = 1,
                          !.trx_ref_count = 0,
                          !.needs_purge = 0,
                          !.skip_allocation = FALSE,
                          !.last_page_no = FIL_NULL,
                          !.last_commit = 0,
                          !.last_offset = 0]
                  ELSE st.rs[r]]]

\* What follows mtr.commit_shrink(): purge_sys.rseg is let go if it was
\* truncated, and truncate.last takes over truncate.current.
truncate_finish(st, c) ==
  LET ps == st.ps
      ps1 == IF ps.rseg # NoRseg /\ st.rs[ps.rseg].last_page_no = FIL_NULL
             THEN [ps EXCEPT !.rseg = NoRseg, !.next_stored = FALSE]
             ELSE ps
  IN [st EXCEPT !.ps = [ps1 EXCEPT !.truncate.last = c,
                                   !.truncate.current = NoSpace]]

\* One attempt as recorded in att: the tablespace, whether the scan chose it
\* (else it was pending in truncate.current), truncate.last and the
\* tablespaces above the threshold at that moment, and how it ended.
AttemptEvent(st, c, outcome) ==
  [space |-> c,
   scanned |-> st.ps.truncate.current = NoSpace,
   last |-> st.ps.truncate.last,
   over |-> {x \in DOMAIN st.sp : st.sp[x].size > st.srv.max_undo_log_size},
   outcome |-> outcome]

\* A variant in which the file is trimmed before the second test of
\* srv_shutdown_state.
truncate_return_trimmed(st0, st, c, outcome) ==
  [st EXCEPT !.att = Append(@, AttemptEvent(st0, c, outcome)),
             !.sp[c].size = IF outcome = "shutdown2"
                            THEN SRV_UNDO_TABLESPACE_SIZE_IN_PAGES
                            ELSE @]

\* A variant of the early return that forgets the candidate.
truncate_return_forgets(st0, st, c, outcome) ==
  [st EXCEPT !.att = Append(@, AttemptEvent(st0, c, outcome)),
             !.ps.truncate.current = NoSpace]

\* The state in which an attempt on tablespace c that began in st0 returns
\* early from st: nothing else is assigned.
truncate_return(st0, st, c, outcome) ==
  [st EXCEPT !.att = Append(@, AttemptEvent(st0, c, outcome))]

RECURSIVE truncate_undo(_, _, _, _)

\* A variant that returns once a tablespace has been truncated.
truncate_stop(st, head, found, sd) == st

\* After a completed truncation the loop goes round.
truncate_continue(st, head, found, sd) == truncate_undo(st, head, found, sd)

\* The loop `while (srv_undo_log_truncate)` of trx_purge_truncate_history().
\* found is what fil_truncate_prepare() returns; sd tells that another
\* thread sets srv_shutdown_state between the two tests of it.
truncate_undo(st, head, found, sd) ==
  IF ~st.srv.undo_log_truncate
  THEN st
  ELSE
    LET c == IF st.ps.truncate.current # NoSpace
             THEN st.ps.truncate.current
             ELSE truncate_scan(st, truncate_scan_start(st.ps),
                                truncate_scan_start(st.ps))
    IN IF c = NoSpace
       THEN [st EXCEPT !.att = Append(@, AttemptEvent(st, c, "none"))]
       ELSE
         LET st1 == truncate_mark([st EXCEPT !.ps.truncate.current = c], c, 1,
                                  head)
             st2 == [st1 EXCEPT
                       !.pq = trx_purge_cleanse_purge_queue(st1.pq, st1.rs, c)]
             st3 == IF sd /\ ~st2.srv.undo_sources
                    THEN [st2 EXCEPT !.srv.shutdown_state =
                                        SRV_SHUTDOWN_INITIATED]
                    ELSE st2
         IN IF ~st1.ok
            THEN truncate_return(st, st1, c, "not_free")
            ELSE IF /\ st2.srv.shutdown_state # SRV_SHUTDOWN_NONE
                    /\ st2.srv.fast_shutdown # 0
            THEN truncate_return(st, st2, c, "shutdown")
            ELSE IF /\ st3.srv.shutdown_state # SRV_SHUTDOWN_NONE
                    /\ st3.srv.fast_shutdown # 0
            THEN truncate_return(st, st3, c, "shutdown2")
            ELSE IF ~found
            THEN truncate_return(st, st3, c, "not_found")
            ELSE truncate_continue(
                   [truncate_finish(truncate_shrink(st3, c), c) EXCEPT
                      !.att = Append(@, AttemptEvent(st, c, "done"))],
                   head, found, sd)

\* trx_purge_truncate_history() up to the test of
\* srv_undo_tablespaces_active: the history of every rollback segment is
\* truncated up to the limit.
truncate_history_loop ==
  LET limit == truncate_limit(purge_sys)
      ps1 == IF purge_sys.head.trx_no # 0
             THEN [purge_sys EXCEPT !.head = limit]
             ELSE [purge_sys EXCEPT !.tail = limit]
  IN truncate_rsegs([rs |-> rseg_array, hdr |-> rseg_hdr,
                     segs |-> undo_segs, len |-> rseg_history_len,
                     ev |-> <<>>, ps |-> ps1, pq |-> purge_queue,
                     sp |-> spaces, srv |-> srv, att |-> <<>>,
                     ok |-> TRUE], 1, ps1)

\* trx_purge_truncate_history(): the state after the call.
trx_purge_truncate_history(found, sd) ==
  IF srv.undo_tablespaces_active < 2
  THEN truncate_history_loop
  ELSE truncate_undo(truncate_history_loop, truncate_limit(purge_sys), found,
                     sd)

\* The fetched records whose log is still on a history list of hdr.
StillListed(done, hdr) ==
  {d \in done : \E k \in 1..Len(hdr[d[1]].history) :
                  hdr[d[1]].history[k].trx_no = d[2]}

\* A call of trx_purge_truncate_history() by the purge coordinator, which
\* goes from from to to.
truncate_history_call(from, to, found, sd) ==
  /\ pc = from
  /\ \E st \in {trx_purge_truncate_history(found, sd)} :
        /\ purge_sys' = st.ps
        /\ rseg_array' = st.rs
        /\ rseg_hdr' = st.hdr
        /\ undo_segs' = st.segs
        /\ rseg_history_len' = st.len
        /\ purge_queue' = st.pq
        /\ spaces' = st.sp
        /\ srv' = st.srv
        /\ ghost' = [ghost EXCEPT !.removals = st.ev, !.fetched = <<>>,
                                  !.done = StillListed(@, st.hdr),
                                  !.attempts = st.att,
                                  !.again =
                                    /\ from = "truncated"
                                    /\ \E k \in 1..Len(ghost.attempts) :
                                         ghost.attempts[k].outcome = "done"]
  /\ pc' = to
  /\ UNCHANGED <<max_trx_id, trxs, views, batch, nodes, probe, sync>>

\* trx_purge_truncate_history() after a batch.
TruncateHistory == truncate_history_call("batch_done", "idle", TRUE, FALSE)

\* ------------------------------------------------------------ specification
Next ==
  \/ \E r \in Rsegs : TrxStart(r)
  \/ \E t \in trxs, recs \in UndoShapes : TrxCommit(t, recs)
  \/ ViewOpen
  \/ \E v \in views : ViewClose(v)
  \/ \E n \in 1..MaxThreads, bs \in 1..MaxBatch : TrxPurgeStart(n, bs)
  \/ AttachStep
  \/ \E k \in 1..MaxThreads : WorkerRun(k)
  \/ CoordinatorRun
  \/ TrxPurgeEnd
  \/ TruncateHistory

Spec == Init /\ [][Next]_vars

\* A second specification: transactions and read views run before the first
\* purge batch only (up to LoadMaxTrxId, LoadMaxActive at a time, each with
\* one of LoadShapes, which has records), then one batch and the history truncation run with
\* nothing else going on.
LoadShapes ==
  {s \in UndoShapes :
     Len(s) > 0 /\ \A k \in 1..Len(s) : s[k] = ((k - 1) % NTables) + 1}

Loading == pc = "idle" /\ low_limit_no(purge_sys) = 0

LoadTrxStart(r) == Loading /\ trx_start(r, LoadMaxTrxId, LoadMaxActive)
LoadTrxCommit(t, recs) == Loading /\ trx_commit(t, recs, LoadMaxTrxId)
LoadViewOpen == Loading /\ ViewOpen
LoadViewClose(v) == Loading /\ ViewClose(v)
LoadPurgeStart(n_tasks, batch_size) ==
  Loading /\ TrxPurgeStart(n_tasks, batch_size)

LoadNext ==
  \/ \E r \in Rsegs : LoadTrxStart(r)
  \/ \E t \in trxs, recs \in LoadShapes : LoadTrxCommit(t, recs)
  \/ LoadViewOpen
  \/ \E v \in views : LoadViewClose(v)
  \/ \E n \in 1..MaxThreads, bs \in LoadMinBatch..LoadMaxBatch : LoadPurgeStart(n, bs)
  \/ AttachStep
  \/ \E k \in 1..MaxThreads : WorkerRun(k)
  \/ CoordinatorRun
  \/ TrxPurgeEnd
  \/ TruncateHistory

SpecLoad == Init /\ [][LoadNext]_vars

\* A third specification, of trx_purge_dml_delay() alone: the history length
\* (probe.len), srv_max_purge_lag and srv_max_purge_lag_delay (microseconds)
\* are drawn at the start and the function is applied once.
DelayCaps == {0, 1000, 5000, 20000, 100000}

InitDelay ==
  /\ max_trx_id = 1
  /\ trxs = {}
  /\ views = {}
  /\ rseg_array = [r \in Rsegs |-> InitRseg]
  /\ rseg_hdr = [r \in Rsegs |-> [history |-> <<>>, history_size |-> 0]]
  /\ undo_segs = EmptyMap
  /\ rseg_history_len = 0
  /\ purge_queue = <<>>
  /\ purge_sys = InitPurgeSys
  /\ pc = "idle"
  /\ batch = InitBatch
  /\ nodes = [k \in 1..MaxThreads |-> <<>>]
  /\ \E lag \in 0..MaxLag, cap \in DelayCaps :
       srv = [InitSrv EXCEPT !.max_purge_lag = lag,
                             !.max_purge_lag_delay = cap]
  /\ spaces = [s \in 1..1 |-> [size |-> SRV_UNDO_TABLESPACE_SIZE_IN_PAGES]]
  /\ \E len \in 0..MaxHistoryLen : probe = [len |-> len, done |-> FALSE]
  /\ ghost = InitGhost
  /\ sync = InitSync

\* srv_dml_needed_delay = trx_purge_dml_delay(), for the history length
\* probe.len.
DmlDelay ==
  /\ ~probe.done
  /\ srv' = [srv EXCEPT !.dml_needed_delay =
                trx_purge_dml_delay(probe.len, srv.max_purge_lag,
                                    srv.max_purge_lag_delay)]
  /\ probe' = [probe EXCEPT !.done = TRUE]
  /\ UNCHANGED <<max_trx_id, trxs, views, rseg_array, rseg_hdr, undo_segs,
                 rseg_history_len, purge_queue, purge_sys, pc, batch, nodes,
                 spaces, ghost, sync>>

DelayNext == DmlDelay

SpecDelay == InitDelay /\ [][DelayNext]_vars

\* A fourth specification, of the truncation of undo tablespaces:
\* innodb_undo_log_truncate is ON, there are NSpaces undo tablespaces of
\* the initial size or grown, and TruncNRsegs rollback segments spread over
\* them in turn. A transaction may extend the tablespace it writes undo
\* to, and the server may shut down. One purge task runs batches of one page;
\* trx_purge_truncate_history() is called once after a batch, or twice in
\* a row.
SpaceOf(r) == ((r - 1) % NSpaces) + 1

TruncShapes == {s \in UndoShapes : Len(s) > 0 /\ \A k \in 1..Len(s) : s[k] = 1}

InitTrunc ==
  /\ max_trx_id = 1
  /\ trxs = {}
  /\ views = {}
  /\ rseg_array = [r \in 1..TruncNRsegs |-> [InitRseg EXCEPT !.space = SpaceOf(r)]]
  /\ rseg_hdr = [r \in 1..TruncNRsegs |-> [history |-> <<>>, history_size |-> 0]]
  /\ undo_segs = EmptyMap
  /\ rseg_history_len = 0
  /\ purge_queue = <<>>
  /\ purge_sys = InitPurgeSys
  /\ pc = "idle"
  /\ batch = InitBatch
  /\ nodes = [k \in 1..MaxThreads |-> <<>>]
  /\ srv = [InitSrv EXCEPT !.undo_tablespaces_active = NSpaces,
                           !.undo_log_truncate = TRUE]
  /\ spaces = [s \in 1..NSpaces |->
                 [size |-> IF s = 1 THEN GrownSize
                           ELSE SRV_UNDO_TABLESPACE_SIZE_IN_PAGES]]
  /\ probe = InitProbe
  /\ ghost = InitGhost
  /\ sync = InitSync

\* Between the two calls of trx_purge_truncate_history() in a row nothing
\* else takes a step.
Between == pc = "truncated"

TruncTrxStart(r) ==
  ~Between /\ srv.undo_sources /\ trx_start(r, TruncMaxTrxId, TruncMaxActive)
TruncTrxCommit(t, recs) == ~Between /\ trx_commit(t, recs, TruncMaxTrxId)

\* An active transaction writes undo pages beyond the end of the file of
\* its undo tablespace s, which is extended.
SpaceExtend(s) ==
  /\ ~Between
  /\ \E t \in trxs : rseg_array[t.rseg].space = s
  /\ spaces[s].size < GrownSize
  /\ spaces' = [spaces EXCEPT ![s].size = GrownSize]
  /\ UNCHANGED <<max_trx_id, trxs, views, rseg_array, rseg_hdr, undo_segs,
                 rseg_history_len, purge_queue, purge_sys, pc, batch, nodes,
                 srv, probe, sync, ghost>>

\* Shutdown begins once no transaction is active: no more sources of undo
\* log; fast is innodb_fast_shutdown at that time.
PreShutdown(fast) ==
  /\ pc = "idle"
  /\ trxs = {}
  /\ srv.undo_sources
  /\ srv' = [srv EXCEPT !.undo_sources = FALSE, !.fast_shutdown = fast]
  /\ UNCHANGED <<max_trx_id, trxs, views, rseg_array, rseg_hdr, undo_segs,
                 rseg_history_len, purge_queue, purge_sys, pc, batch, nodes,
                 spaces, probe, sync, ghost>>

\* The same step of the shutdown thread while the purge coordinator is at
\* any point of a batch: the two threads are not synchronised.
ConcurrentShutdown(fast) ==
  /\ trxs = {}
  /\ srv.undo_sources
  /\ srv' = [srv EXCEPT !.undo_sources = FALSE, !.fast_shutdown = fast]
  /\ UNCHANGED <<max_trx_id, trxs, views, rseg_array, rseg_hdr, undo_segs,
                 rseg_history_len, purge_queue, purge_sys, pc, batch, nodes,
                 spaces, probe, sync, ghost>>

\* srv_shutdown_state leaves SRV_SHUTDOWN_NONE.
ShutdownInitiate ==
  /\ pc = "idle"
  /\ ~srv.undo_sources
  /\ srv.shutdown_state = SRV_SHUTDOWN_NONE
  /\ srv' = [srv EXCEPT !.shutdown_state = SRV_SHUTDOWN_INITIATED]
  /\ UNCHANGED <<max_trx_id, trxs, views, rseg_array, rseg_hdr, undo_segs,
                 rseg_history_len, purge_queue, purge_sys, pc, batch, nodes,
                 spaces, probe, sync, ghost>>

TruncPurgeStart == TrxPurgeStart(1, 1)

\* trx_purge_truncate_history() twice in a row; in the second call
\* fil_truncate_prepare() finds what it found in the first.
TruncateFirst(found, sd) ==
  truncate_history_call("batch_done", "truncated", found, sd)
TruncateSecond(sd) ==
  truncate_history_call(
    "truncated", "idle",
    \A k \in 1..Len(ghost.attempts) : ghost.attempts[k].outcome # "not_found",
    sd)

TruncNext ==
  \/ \E r \in 1..TruncNRsegs : TruncTrxStart(r)
  \/ \E t \in trxs, recs \in TruncShapes : TruncTrxCommit(t, recs)
  \/ \E s \in 1..NSpaces : SpaceExtend(s)
  \/ \E fast \in 0..1 : PreShutdown(fast)
  \/ ShutdownInitiate
  \/ TruncPurgeStart
  \/ AttachStep
  \/ CoordinatorRun
  \/ TrxPurgeEnd
  \/ \E found \in BOOLEAN, sd \in BOOLEAN : TruncateFirst(found, sd)
  \/ \E sd \in BOOLEAN : TruncateSecond(sd)

SpecTrunc == InitTrunc /\ [][TruncNext]_vars

\* ------------------------------------------------------------------ claims
\* (trx_no, undo_no) of the records fetched in the batch from segment r.
FetchedFrom(r) ==
  LET f == SelectSeq(ghost.fetched, LAMBDA x : x.rec.rseg = r)
  IN [k \in 1..Len(f) |-> <<f[k].rec.trx_no, f[k].rec.undo_no>>]

\* (trx_no, undo_no) of the undo records of a log.
RecordsOf(log) == [k \in 1..Len(log.recs) |-> <<log.trx_no, k - 1>>]

\* trx_no of the logs on a history list.
TrxNos(h) == [k \in 1..Len(h) |-> h[k].trx_no]

\* C1: in a purge batch, every undo record that trx_purge_fetch_next_rec
\* hands out belongs to an undo log whose trx_no is below the low_limit_no
\* of the purge view cloned at the start of the batch.
C1_FetchedBelowLowLimit ==
  \A k \in 1..Len(ghost.fetched) :
    ghost.fetched[k].rec.trx_no < low_limit_no(purge_sys)

\* C2: within a batch, two records fetched from the same rollback segment
\* come in nondecreasing (trx_no, undo_no) order.
C2_FetchOrder ==
  \A i, j \in 1..Len(ghost.fetched) :
    LET a == ghost.fetched[i].rec
        b == ghost.fetched[j].rec
    IN i < j /\ a.rseg = b.rseg =>
         \/ a.trx_no < b.trx_no
         \/ a.trx_no = b.trx_no /\ a.undo_no <= b.undo_no

\* C2 witness: a batch fetched two records of one log and then a record of
\* the next log of the same rollback segment.
C2_Witness ==
  \E i, j, k \in 1..Len(ghost.fetched) :
    LET a == ghost.fetched[i].rec
        b == ghost.fetched[j].rec
        c == ghost.fetched[k].rec
    IN /\ i < j /\ j < k
       /\ a.rseg = b.rseg /\ b.rseg = c.rseg
       /\ a.trx_no = b.trx_no /\ a.undo_no < b.undo_no
       /\ b.trx_no < c.trx_no

\* C3: the low_limit_no that clone_oldest_view gives a batch is not below
\* that of the batch before it.
C3_MonotoneLowLimit ==
  ghost.prev_view # NoView => low_limit_no(purge_sys) >= ghost.prev_view

\* C3 witness: a batch that follows another starts with a larger
\* low_limit_no, taken from an open read view.
C3_Witness ==
  /\ ghost.prev_view >= 1
  /\ low_limit_no(purge_sys) > ghost.prev_view
  /\ low_limit_no(purge_sys) \in views
  /\ low_limit_no(purge_sys) < max_trx_id

\* C4: the element set_next takes from the purge queue has the least
\* trx_no of the elements queued at that moment.
C4_PopsLeast ==
  ghost.popped.n > 0 => ghost.popped.trx_no = ghost.popped.least

\* C4 witness: set_next took, as the least of two or more elements, a
\* segment that was queued again after its oldest log, later than the
\* element with a larger trx_no that is still on the queue.
C4_Witness ==
  /\ ghost.popped.n >= 2
  /\ purge_sys.rseg # NoRseg
  /\ last_trx_no(rseg_array[purge_sys.rseg]) = ghost.popped.trx_no
  /\ LET h == rseg_hdr[purge_sys.rseg].history
     IN h # <<>> /\ h[Len(h)].trx_no < ghost.popped.trx_no
  /\ \E k \in 1..Len(purge_queue) :
       /\ purge_queue[k].trx_no > ghost.popped.trx_no
       /\ purge_queue[k].rsegs # <<purge_sys.rseg>>

\* Scenario B: after a batch that did not end on the batch size, segment r
\* has three logs t1 < t2 < t3 on its history list and low_limit_no F is
\* such that t2 < F <= t3. (In SpecLoad the batch is the first one.)
ScenarioB(r) ==
  LET h == rseg_hdr[r].history
  IN /\ pc = "batch_done"
     /\ ~ghost.cut
     /\ Len(h) = 3
     /\ h[2].trx_no < low_limit_no(purge_sys)
     /\ low_limit_no(purge_sys) <= h[1].trx_no

\* The batch fetched from r exactly the records of t1 and of t2.
ScenarioBFetched(r) ==
  LET h == rseg_hdr[r].history
  IN FetchedFrom(r) = RecordsOf(h[3]) \o RecordsOf(h[2])

C7_FreeOnlyWhenAllowed ==
  \A k \in 1..Len(ghost.removals) :
    LET e == ghost.removals[k]
    IN IF e.whole
       THEN /\ e.state = TRX_UNDO_TO_PURGE
            /\ e.next_log = 0
            /\ e.trx_ref_count = 0
            /\ e.trx_no < e.limit.trx_no
       ELSE e.kept

\* C7 witness: one truncation freed a whole segment and removed only the
\* header of a log of another.
C7_Witness ==
  \E i, j \in 1..Len(ghost.removals) :
    ghost.removals[i].whole /\ ~ghost.removals[j].whole

\* C8: freeing an undo segment of n pages takes n from rseg->curr_size and
\* from TRX_RSEG_HISTORY_SIZE and 1 from trx_sys.rseg_history_len, and no
\* counter goes below zero.
C8_FreeSegmentAccounting ==
  \A k \in 1..Len(ghost.removals) :
    LET e == ghost.removals[k]
    IN e.whole =>
         /\ e.curr_size[2] = e.curr_size[1] - e.seg_size
         /\ e.history_size[2] = e.history_size[1] - e.seg_size
         /\ e.len[2] = e.len[1] - 1
         /\ e.curr_size[2] >= 0
         /\ e.history_size[2] >= 0
         /\ e.len[2] >= 0

\* C8 witness: a segment of two pages was freed.
C8_Witness ==
  \E k \in 1..Len(ghost.removals) :
    ghost.removals[k].whole /\ ghost.removals[k].seg_size >= 2

\* C9: within a batch, the records of one table id all go to one node.
C9_SameTableSameNode ==
  \A i, j \in 1..Len(ghost.fetched) :
    ghost.fetched[i].rec.table = ghost.fetched[j].rec.table
      => ghost.fetched[i].node = ghost.fetched[j].node

\* C9 witness: records of two tables alternate in a batch.
C9_Witness ==
  \E i, j, k \in 1..Len(ghost.fetched) :
    /\ i < j /\ j < k
    /\ ghost.fetched[i].rec.table = ghost.fetched[k].rec.table
    /\ ghost.fetched[i].rec.table # ghost.fetched[j].rec.table

\* The number of distinct table ids met before record k of the batch
\* introduced its table id.
TableRank(k) ==
  LET first == Min({i \in 1..k :
                     ghost.fetched[i].rec.table = ghost.fetched[k].rec.table})
  IN Cardinality({ghost.fetched[i].rec.table : i \in 1..(first - 1)})

\* C10: within a batch, the k-th distinct table id (k = 0, 1, ...) goes to
\* slot k mod n_purge_threads (node k mod n_purge_threads + 1), and no
\* record goes to a slot >= n_purge_threads.
C10_RoundRobin ==
  pc \in {"attach", "execute"} =>
    \A k \in 1..Len(ghost.fetched) :
      /\ ghost.fetched[k].node - 1 = TableRank(k) % batch.n_purge_threads
      /\ ghost.fetched[k].node - 1 < batch.n_purge_threads

\* C10 witness: with one purge thread a second table id wraps to slot 0.
C10_Witness ==
  /\ pc \in {"attach", "execute"}
  /\ batch.n_purge_threads < MaxThreads
  /\ \E k \in 1..Len(ghost.fetched) :
       TableRank(k) >= batch.n_purge_threads

\* C11: in the attach phase the number of undo pages handled never exceeds
\* srv_purge_batch_size, whatever the undo stream is, including logs that
\* yield only the dummy record.
C11_PagesWithinBatchSize ==
  pc \in {"attach", "execute"} => batch.n_pages_handled <= batch.batch_size

\* C12: when trx_purge has returned, and so at the start of the next attach
\* phase, every purge node that received records has executed them: the
\* record queue of every node is empty and no task is left to run.
C12_NodesDone ==
  \/ pc \in {"idle", "batch_done"}
  \/ pc = "attach" /\ ghost.fetched = <<>>
  => /\ \A k \in 1..MaxThreads : nodes[k] = <<>>
     /\ batch.tasks = {}

\* C12 witness: trx_purge has returned from a batch that gave records to
\* two nodes, one run by a worker and one by the coordinator.
C12_Witness ==
  /\ pc = "batch_done"
  /\ \E i, j \in 1..Len(ghost.fetched) :
       ghost.fetched[i].node # ghost.fetched[j].node

\* C13: trx_purge_dml_delay returns 0 when srv_max_purge_lag is 0 and when
\* the history length does not exceed srv_max_purge_lag, and with a lag
\* limit configured it never returns more than srv_max_purge_lag_delay.
C13_DmlDelay ==
  probe.done =>
    /\ srv.max_purge_lag = 0 => srv.dml_needed_delay = 0
    /\ probe.len <= srv.max_purge_lag => srv.dml_needed_delay = 0
    /\ srv.max_purge_lag > 0 =>
         srv.dml_needed_delay <= srv.max_purge_lag_delay

\* C13 witness: the history is longer than the limit and the delay computed
\* from the ratio, above 5000, was cut to srv_max_purge_lag_delay.
C13_Witness ==
  /\ probe.done
  /\ srv.max_purge_lag > 0
  /\ probe.len > srv.max_purge_lag
  /\ srv.dml_needed_delay = srv.max_purge_lag_delay
  /\ srv.dml_needed_delay >= 5000
  /\ ((2 * probe.len - srv.max_purge_lag) * 5000) \div srv.max_purge_lag
       > srv.max_purge_lag_delay

\* The tablespaces in the order of a scan that starts after tablespace last,
\* wrapping around, or at the first one when last is NoSpace.
ScanOrder(last) ==
  LET n == srv.undo_tablespaces_active
      first == IF last = NoSpace THEN 1 ELSE (last % n) + 1
  IN [k \in 1..n |-> ((first + k - 2) % n) + 1]

\* The first tablespace of that order that is in over, NoSpace if none is.
FirstOver(last, over) ==
  LET order == ScanOrder(last)
      hits == {k \in DOMAIN order : order[k] \in over}
  IN IF hits = {} THEN NoSpace ELSE order[Min(hits)]

\* C14: when no candidate is pending, the scan starts at the tablespace
\* after the last truncated one (wrapping around; at the first when none was
\* truncated yet), visits each active undo tablespace at most once and picks
\* the first one above the threshold, or returns without a candidate.
C14_ScanStartsAfterLast ==
  \A k \in 1..Len(ghost.attempts) :
    LET e == ghost.attempts[k]
    IN e.scanned => e.space = FirstOver(e.last, e.over)

\* A step that is a call of trx_purge_truncate_history().
TruncateStep == pc \in {"batch_done", "truncated"} /\ pc' \in {"truncated", "idle"}

\* The tablespaces whose truncation the call of this step completed.
Truncated == {ghost'.attempts[k].space :
                k \in {j \in 1..Len(ghost'.attempts) :
                         ghost'.attempts[j].outcome = "done"}}

\* What rollback segment r is like in state st (as threaded by the
\* truncation) when its tablespace is re-initialised; head is the purge
\* head, and strict tells to compare the cached undo logs with a head whose
\* trx_no is 0 too.
C15_Quiescent(st, r, head, strict) ==
  LET rseg == st.rs[r]
  IN /\ rseg.trx_ref_count = 0
     /\ sees(st.ps, rseg.needs_purge)
     /\ strict \/ head.trx_no # 0 =>
          \A k \in 1..Len(rseg.undo_cached) :
            rseg.undo_cached[k].trx_id <= head.trx_no
     /\ \/ st.srv.fast_shutdown = 0 /\ ~st.srv.undo_sources /\ st.len = 0
        \/ rseg.curr_size <= 1 + cached_size(rseg.undo_cached)

\* C15 as stated: an undo tablespace is shrunk and its rollback segment
\* headers are recreated only in a state where every rollback segment
\* residing in it has trx_ref_count 0, has needs_purge visible to the purge
\* view, has no cached undo log with trx_id above the purge head and, outside
\* slow shutdown with no undo sources and an empty history, holds no pages
\* beyond its header page and its cached undo logs.
C15_ShrinkOnlyWhenQuiescent_AsStated ==
  [][TruncateStep =>
       \A s \in Truncated :
         \A r \in DOMAIN rseg_array :
           rseg_array[r].space = s =>
             C15_Quiescent(truncate_history_loop, r,
                           truncate_limit(purge_sys), TRUE)]_vars

\* C15, amended: as above, but the cached undo logs are compared with the
\* purge head only when the trx_no of the purge head is not 0.
C15_ShrinkOnlyWhenQuiescent ==
  [][TruncateStep =>
       \A s \in Truncated :
         \A r \in DOMAIN rseg_array :
           rseg_array[r].space = s =>
             C15_Quiescent(truncate_history_loop, r,
                           truncate_limit(purge_sys), FALSE)]_vars

\* C15 witness: a tablespace has just been truncated whose rollback segments
\* had been used by a transaction, after purge had advanced its head.
C15_Witness ==
  /\ pc = "truncated"
  /\ \E k \in 1..Len(ghost.attempts) : ghost.attempts[k].outcome = "done"
  /\ purge_sys.head.trx_no # 0
  /\ ghost.removals # <<>>

\* C16: when a truncation attempt returns early because some rollback
\* segment of the candidate tablespace is not yet quiescent, every rollback
\* segment residing in that tablespace has skip_allocation set.
C16_AllMarkedOnEarlyReturn ==
  [][TruncateStep =>
       \A k \in 1..Len(ghost'.attempts) :
         ghost'.attempts[k].outcome = "not_free" =>
           \A r \in DOMAIN rseg_array' :
             rseg_array'[r].space = ghost'.attempts[k].space =>
               rseg_array'[r].skip_allocation]_vars

\* Tablespace s is of the initial size and its rollback segments are as
\* created, in the state after the step.
Fresh(s) ==
  /\ spaces'[s].size = SRV_UNDO_TABLESPACE_SIZE_IN_PAGES
  /\ \A r \in DOMAIN rseg_array' :
       rseg_array'[r].space = s =>
         /\ rseg_array'[r].curr_size = 1
         /\ rseg_array'[r].trx_ref_count = 0
         /\ rseg_array'[r].needs_purge = 0
         /\ rseg_array'[r].skip_allocation = FALSE
         /\ rseg_array'[r].last_page_no = FIL_NULL
         /\ rseg_hdr'[r].history = <<>>
         /\ rseg_hdr'[r].history_size = 0
         /\ rseg_array'[r].undo_cached = <<>>

\* C17: after a completed truncation of an undo tablespace its size is
\* SRV_UNDO_TABLESPACE_SIZE_IN_PAGES and every rollback segment residing in
\* it has curr_size 1, trx_ref_count 0, needs_purge 0, skip_allocation
\* false, an empty history (last_page_no FIL_NULL) and no cached undo log.
C17_FreshAfterTruncation ==
  [][TruncateStep => \A s \in Truncated : Fresh(s)]_vars

\* C17 witness: a tablespace has just been truncated while a history list
\* in it still held an undo log (trx_sys.rseg_history_len counts it, and no
\* history list holds one any more).
C17_Witness ==
  /\ pc = "truncated"
  /\ \E k \in 1..Len(ghost.attempts) : ghost.attempts[k].outcome = "done"
  /\ rseg_history_len > 0
  /\ \A r \in DOMAIN rseg_hdr : rseg_hdr[r].history = <<>>

\* The ways an attempt returns early.
EarlyOutcomes == {"not_free", "shutdown", "shutdown2", "not_found"}

\* C18: if a truncation attempt returns early (a segment not yet quiescent,
\* fast shutdown observed, or the tablespace not found),
\* purge_sys.truncate.current still designates the same tablespace and
\* truncate.last is what it was when the attempt began; and the next call
\* of trx_purge_truncate_history resumes with the tablespace that
\* truncate.current designates instead of selecting one by a scan.
C18_EarlyReturnKeepsCandidate ==
  [][TruncateStep =>
       /\ \A k \in 1..Len(ghost'.attempts) :
            ghost'.attempts[k].outcome \in EarlyOutcomes =>
              /\ purge_sys'.truncate.current = ghost'.attempts[k].space
              /\ purge_sys'.truncate.last = ghost'.attempts[k].last
       /\ purge_sys.truncate.current # NoSpace =>
            /\ ghost'.attempts # <<>>
            /\ ghost'.attempts[1].space = purge_sys.truncate.current
            /\ ~ghost'.attempts[1].scanned]_vars

\* C18 witness: a call has resumed with the tablespace that an earlier call
\* had left in truncate.current, and has completed its truncation.
C18_Witness ==
  /\ pc = "truncated"
  /\ \E k \in 1..Len(ghost.attempts) :
       ~ghost.attempts[k].scanned /\ ghost.attempts[k].outcome = "done"

\* Tablespace s and its rollback segments are, after the step, what they
\* were in st, but for skip_allocation.
Untouched(s, st) ==
  /\ spaces'[s] = st.sp[s]
  /\ \A r \in DOMAIN rseg_array' :
       rseg_array'[r].space = s =>
         /\ rseg_hdr'[r] = st.hdr[r]
         /\ [rseg_array'[r] EXCEPT !.skip_allocation = FALSE]
              = [st.rs[r] EXCEPT !.skip_allocation = FALSE]

\* C19: if fast shutdown is observed at either test of srv_shutdown_state
\* during a truncation attempt, the attempt returns with the size of the
\* tablespace unchanged, no rollback segment header recreated and curr_size,
\* needs_purge, last_page_no and the cached undo logs of its rollback
\* segments unchanged; and after any call every undo tablespace is either
\* re-initialised as a whole or not at all.
C19_ShutdownLeavesUntouched ==
  [][TruncateStep =>
       /\ \A k \in 1..Len(ghost'.attempts) :
            ghost'.attempts[k].outcome \in {"shutdown", "shutdown2"} =>
              Untouched(ghost'.attempts[k].space, truncate_history_loop)
       /\ \A s \in DOMAIN spaces :
            \/ s \in Truncated /\ Fresh(s)
            \/ s \notin Truncated /\ Untouched(s, truncate_history_loop)]_vars

\* C19 witness: an attempt on a tablespace above the threshold, one of whose
\* rollback segments has a cached undo log, has just returned at the second
\* test of srv_shutdown_state.
C19_Witness ==
  /\ pc = "truncated"
  /\ \E k \in 1..Len(ghost.attempts) :
       /\ ghost.attempts[k].outcome = "shutdown2"
       /\ spaces[ghost.attempts[k].space].size > srv.max_undo_log_size
       /\ \E r \in DOMAIN rseg_array :
            /\ rseg_array[r].space = ghost.attempts[k].space
            /\ rseg_array[r].undo_cached # <<>>

\* The tablespaces whose truncation the call before this step completed.
TruncatedBefore == {ghost.attempts[k].space :
                      k \in {j \in 1..Len(ghost.attempts) :
                               ghost.attempts[j].outcome = "done"}}

\* C20: a second call of trx_purge_truncate_history right after a call
\* that completed the truncation of a tablespace, with no commit in between,
\* does not truncate that tablespace again and changes no rollback segment's
\* header, curr_size, needs_purge, last_page_no or skip_allocation.
C20_SecondCallNoOp ==
  [][pc = "truncated" /\ pc' = "idle" /\ TruncatedBefore # {} =>
       /\ TruncatedBefore \cap Truncated = {}
       /\ rseg_hdr' = rseg_hdr
       /\ \A r \in DOMAIN rseg_array :
            /\ rseg_array'[r].curr_size = rseg_array[r].curr_size
            /\ rseg_array'[r].needs_purge = rseg_array[r].needs_purge
            /\ rseg_array'[r].last_page_no = rseg_array[r].last_page_no
            /\ rseg_array'[r].skip_allocation = rseg_array[r].skip_allocation]_vars

\* C20 witness: the second of two calls in a row has returned; the first
\* had truncated a tablespace in which a history list still held an undo
\* log, and the second scanned the tablespaces again.
C20_Witness ==
  /\ pc = "idle"
  /\ ghost.again
  /\ ghost.attempts # <<>>
  /\ ghost.attempts[1].scanned
  /\ rseg_history_len > 0
  /\ \A r \in DOMAIN rseg_hdr : rseg_hdr[r].history = <<>>

StopMaxTrxId == 7
StopMaxActive == 2
StopBatch == 3

StopTrxStart(r) == Loading /\ trx_start(r, StopMaxTrxId, StopMaxActive)
StopTrxCommit(t, recs) == Loading /\ trx_commit(t, recs, StopMaxTrxId)
StopPurgeStart == TrxPurgeStart(1, StopBatch)

StopNext ==
  \/ \E r \in Rsegs : StopTrxStart(r)
  \/ \E t \in trxs, recs \in LoadShapes : StopTrxCommit(t, recs)
  \/ \E fast \in 0..1 : ConcurrentShutdown(fast)
  \/ StopPurgeStart
  \/ AttachStep
  \/ CoordinatorRun
  \/ TrxPurgeEnd
  \/ TruncateHistory

SpecStop == Init /\ [][StopNext]_vars

\* The fetch of the attach loop would return no record: nothing is stored
\* as next, or the next record is at or beyond the view's low limit.
NothingToFetch(ps) ==
  \/ ~ps.next_stored
  \/ ps.tail.trx_no >= low_limit_no(ps)

\* C25: once the attach phase of a batch has started it ends only because
\* no record is left, because the pages handled reached the batch size, or
\* because the next record's trx_no is not below the view's low limit; a
\* shutdown requested in the middle of the batch does not end it earlier.
C25_AttachEndsNaturally ==
  [][(pc = "attach" /\ pc' = "execute")
       => (ghost'.cut \/ NothingToFetch(purge_sys'))]_vars

\* The history list of rollback segment r is in descending order of trx_no
\* from its first (newest) to its last (oldest) log.
HistoryDescending(h) ==
  \A i, j \in DOMAIN h : i < j => h[i].trx_no > h[j].trx_no

\* A step that adds a log as the first of r's history list.
Prepended(r) ==
  /\ Len(rseg_hdr'[r].history) = Len(rseg_hdr[r].history) + 1
  /\ \A i \in DOMAIN rseg_hdr[r].history :
       rseg_hdr'[r].history[i + 1].trx_no = rseg_hdr[r].history[i].trx_no

\* C26: every rollback segment's history list is ordered by trx_no, newest
\* first, in every reachable state; each log that
\* trx_purge_add_undo_to_history prepends has a trx_no greater than that of
\* every log already on the list and not less than the segment's
\* last_trx_no().
C26_HistoryNewestFirst ==
  /\ [](\A r \in DOMAIN rseg_hdr : HistoryDescending(rseg_hdr[r].history))
  /\ [][\A r \in DOMAIN rseg_hdr :
          Prepended(r) =>
            /\ \A i \in DOMAIN rseg_hdr[r].history :
                 rseg_hdr'[r].history[1].trx_no
                   > rseg_hdr[r].history[i].trx_no
            /\ rseg_hdr'[r].history[1].trx_no
                 >= last_trx_no(rseg_array[r])]_vars

\* C26 witness: two transactions of one rollback segment have committed in
\* the reverse order of their start, after a commit in another rollback
\* segment.
C26_Witness ==
  \E r, q \in DOMAIN rseg_hdr :
    LET h == rseg_hdr[r].history
    IN /\ r # q
       /\ Len(h) >= 2
       /\ h[1].trx_id < h[2].trx_id
       /\ h[2].trx_no >= last_trx_no(rseg_array[r])
       /\ rseg_hdr[q].history # <<>>

\* C27: once an undo log is on a history list, purge never modifies its
\* contents or frees part of its pages; the only change purge applies to a
\* log on the history list is removing it entirely.
C27_LogsImmutable ==
  [][\A r \in DOMAIN rseg_hdr :
       \A i \in DOMAIN rseg_hdr[r].history :
         \A j \in DOMAIN rseg_hdr'[r].history :
           rseg_hdr[r].history[i].trx_no = rseg_hdr'[r].history[j].trx_no
             => rseg_hdr[r].history[i] = rseg_hdr'[r].history[j]]_vars

\* ---------------------------------------------------------------------
\* trx_purge_cleanse_purge_queue() on its own: the queue holds up to
\* CleanseMaxLen elements, each a group of up to CleanseMaxGroup rollback
\* segments under one trx_no; a rollback segment is queued at most once.
CleanseMaxLen == 2
CleanseMaxGroup == 2
CleanseMaxNo == 3

Range(f) == {f[k] : k \in DOMAIN f}

CleanseGroups ==
  {g \in UNION {[1..n -> 1..TruncNRsegs] : n \in 1..CleanseMaxGroup} :
     \A i, j \in DOMAIN g : i # j => g[i] # g[j]}

CleanseQueues ==
  {q \in UNION {[1..n -> [trx_no : 1..CleanseMaxNo, rsegs : CleanseGroups]] :
                  n \in 0..CleanseMaxLen} :
     \A i, j \in DOMAIN q :
       i < j => /\ q[i].trx_no < q[j].trx_no
                /\ Range(q[i].rsegs) \cap Range(q[j].rsegs) = {}}

InitCleanse ==
  /\ max_trx_id = 1
  /\ trxs = {}
  /\ views = {}
  /\ rseg_array = [r \in 1..TruncNRsegs |-> [InitRseg EXCEPT !.space = SpaceOf(r)]]
  /\ rseg_hdr = [r \in 1..TruncNRsegs |-> [history |-> <<>>, history_size |-> 0]]
  /\ undo_segs = EmptyMap
  /\ rseg_history_len = 0
  /\ purge_queue \in CleanseQueues
  /\ purge_sys = InitPurgeSys
  /\ pc = "idle"
  /\ batch = InitBatch
  /\ nodes = [k \in 1..MaxThreads |-> <<>>]
  /\ srv = [InitSrv EXCEPT !.undo_tablespaces_active = NSpaces,
                           !.undo_log_truncate = TRUE]
  /\ spaces = [s \in 1..NSpaces |-> [size |-> SRV_UNDO_TABLESPACE_SIZE_IN_PAGES]]
  /\ probe = [done |-> FALSE, space |-> NoSpace, before |-> <<>>]
  /\ ghost = InitGhost
  /\ sync = InitSync

\* trx_purge_cleanse_purge_queue(space) for undo tablespace c; probe keeps
\* the argument and the queue before the call.
CleanseQueue(c) ==
  /\ ~probe.done
  /\ purge_queue' = trx_purge_cleanse_purge_queue(purge_queue, rseg_array, c)
  /\ probe' = [done |-> TRUE, space |-> c, before |-> purge_queue]
  /\ UNCHANGED <<max_trx_id, trxs, views, rseg_array, rseg_hdr, undo_segs,
                 rseg_history_len, purge_sys, pc, batch, nodes, srv, spaces,
                 ghost, sync>>

CleanseNext == \E c \in 1..NSpaces : CleanseQueue(c)

SpecCleanse == InitCleanse /\ [][CleanseNext]_vars

\* The rollback segments of group g that reside in undo tablespace c.
InSpace(g, c) == {k \in DOMAIN g : rseg_array[g[k]].space = c}

\* No element of the queue is empty.
NoEmptyElement == \A k \in DOMAIN purge_queue : purge_queue[k].rsegs # <<>>

\* Every rollback segment of another tablespace that was queued before the
\* call is queued under the same trx_no after it.
OthersStillQueued ==
  \A k \in DOMAIN probe.before :
    \A i \in DOMAIN probe.before[k].rsegs :
      rseg_array[probe.before[k].rsegs[i]].space # probe.space
        => \E m \in DOMAIN purge_queue :
             /\ purge_queue[m].trx_no = probe.before[k].trx_no
             /\ probe.before[k].rsegs[i] \in Range(purge_queue[m].rsegs)

\* No element of the queue contains a rollback segment of the tablespace.
NoneOfSpace ==
  \A k \in DOMAIN purge_queue : InSpace(purge_queue[k].rsegs, probe.space) = {}

CleansedOnePerElement ==
  probe.done =>
    /\ NoEmptyElement
    /\ OthersStillQueued
    /\ (\A k \in DOMAIN probe.before :
          Cardinality(InSpace(probe.before[k].rsegs, probe.space)) <= 1)
         => NoneOfSpace

\* ---------------------------------------------------------------------
\* The critical sections of the purge coordinator and of the committing
\* threads, one step per mutex operation and per page access between them.
\* What a section does with the data it protects is left out; a branch that
\* depends on it is taken either way.

\* Where a thread is: a label and the rollback segment it goes on with.
At(l) == [l |-> l, r |-> NoRseg]
AtRseg(l, r) == [l |-> l, r |-> r]

\* mutex_enter(m) by thread t, which goes on at label next.
mutex_enter(s, t, m, next) ==
  [s EXCEPT !.owner[m] = t, !.held[t] = Append(@, m), !.at[t] = next,
            !.page[t] = "none"]

\* mutex_exit(m) by thread t, which goes on at label next.
mutex_exit(s, t, m, next) ==
  [s EXCEPT !.owner[m] = NoThread,
            !.held[t] = SelectSeq(@, LAMBDA x : x # m),
            !.at[t] = next, !.page[t] = "none"]

\* A page access of thread t between two mutex operations.
page_access(s, t, kind, next) ==
  [s EXCEPT !.page[t] = kind, !.at[t] = next]

\* The rollback segment mutex that thread t holds.
HeldRseg(s, t) ==
  CHOOSE m \in Mutexes : m # PqMutex /\ s.owner[m] = t

\* What the critical sections leave alone.
SyncFrame ==
  UNCHANGED <<max_trx_id, trxs, views, rseg_array, rseg_hdr, undo_segs,
              rseg_history_len, purge_queue, purge_sys, pc, batch, nodes,
              srv, spaces, probe, ghost>>

\* TrxUndoRsegsIterator::set_next(): mutex_enter(&purge_sys.pq_mutex).
SetNextEnter ==
  /\ sync.owner[PqMutex] = NoThread
  /\ sync.at[PurgeThread] = At("idle")
  /\ sync' = mutex_enter(sync, PurgeThread, PqMutex, At("set_next_pq"))
  /\ SyncFrame

\* set_next(): the queue is empty; pq_mutex is released and false returned.
SetNextEmpty ==
  /\ sync.at[PurgeThread] = At("set_next_pq")
  /\ sync' = mutex_exit(sync, PurgeThread, PqMutex, At("idle"))
  /\ SyncFrame

\* set_next() that goes on to lock the rollback segment without releasing
\* pq_mutex.
set_next_keeps_pq(s, r) ==
  [s EXCEPT !.at[PurgeThread] = AtRseg("set_next_rseg", r)]

\* set_next(): purge_sys.rseg = *m_iter++ (rollback segment r), then
\* mutex_exit(&purge_sys.pq_mutex) before the rollback segment is locked.
set_next_unlock(s, r) ==
  mutex_exit(s, PurgeThread, PqMutex, AtRseg("set_next_rseg", r))

SetNextUnlock(r) ==
  /\ sync.at[PurgeThread] = At("set_next_pq")
  /\ sync' = set_next_unlock(sync, r)
  /\ SyncFrame

\* set_next(): mutex_enter(&purge_sys.rseg->mutex).
SetNextLock(r) ==
  /\ sync.owner[r] = NoThread
  /\ sync.at[PurgeThread] = AtRseg("set_next_rseg", r)
  /\ sync' = mutex_enter(sync, PurgeThread, r, At("set_next_read"))
  /\ SyncFrame

\* set_next(): last_trx_no, last_offset and last_page_no are read, then
\* mutex_exit(&purge_sys.rseg->mutex); pq_mutex is not held any more.
SetNextRead ==
  /\ sync.at[PurgeThread] = At("set_next_read")
  /\ sync' = mutex_exit(sync, PurgeThread, HeldRseg(sync, PurgeThread),
               At("idle"))
  /\ SyncFrame

\* trx_purge_rseg_get_next_history_log(): mutex_enter(&purge_sys.rseg->mutex)
\* for purge_sys.rseg = r.
NextLogLock(r) ==
  /\ sync.owner[r] = NoThread
  /\ sync.at[PurgeThread] = At("idle")
  /\ sync' = mutex_enter(sync, PurgeThread, r, At("next_log_locked"))
  /\ SyncFrame

\* trx_undo_page_get_s_latched() of the page of the last log.
NextLogRead ==
  /\ sync.at[PurgeThread] = At("next_log_locked")
  /\ sync' = page_access(sync, PurgeThread, "read", At("next_log_read"))
  /\ SyncFrame

\* mutex_exit(&purge_sys.rseg->mutex) and mtr.commit(); return if the
\* history list has no log before this one.
NextLogUnlock(empty) ==
  /\ sync.at[PurgeThread] = At("next_log_read")
  /\ sync' = mutex_exit(sync, PurgeThread, HeldRseg(sync, PurgeThread),
               IF empty THEN At("idle")
               ELSE AtRseg("prev_log", HeldRseg(sync, PurgeThread)))
  /\ SyncFrame

\* The header of the previous log is read.
PrevLogRead(r) ==
  /\ sync.at[PurgeThread] = AtRseg("prev_log", r)
  /\ sync' = page_access(sync, PurgeThread, "read", AtRseg("prev_log_read", r))
  /\ SyncFrame

\* mutex_enter(&purge_sys.rseg->mutex) before last_page_no is set.
NextLogRelock(r) ==
  /\ sync.owner[r] = NoThread
  /\ sync.at[PurgeThread] = AtRseg("prev_log_read", r)
  /\ sync' = mutex_enter(sync, PurgeThread, r, At("next_log_relocked"))
  /\ SyncFrame

\* mutex_enter(&purge_sys.pq_mutex), with the rollback segment mutex held.
NextLogPqLock ==
  /\ sync.owner[PqMutex] = NoThread
  /\ sync.at[PurgeThread] = At("next_log_relocked")
  /\ sync' = mutex_enter(sync, PurgeThread, PqMutex, At("next_log_push"))
  /\ SyncFrame

\* purge_sys.purge_queue.push(*purge_sys.rseg); mutex_exit(pq_mutex).
NextLogPush ==
  /\ sync.at[PurgeThread] = At("next_log_push")
  /\ sync' = mutex_exit(sync, PurgeThread, PqMutex, At("next_log_pushed"))
  /\ SyncFrame

\* mutex_exit(&purge_sys.rseg->mutex).
NextLogDone ==
  /\ sync.at[PurgeThread] = At("next_log_pushed")
  /\ sync' = mutex_exit(sync, PurgeThread, HeldRseg(sync, PurgeThread), At("idle"))
  /\ SyncFrame

\* trx_purge_truncate_history(): mutex_enter(&rseg->mutex) in the loop over
\* rseg_array.
HistoryLock(r) ==
  /\ sync.owner[r] = NoThread
  /\ sync.at[PurgeThread] = At("idle")
  /\ sync' = mutex_enter(sync, PurgeThread, r, At("history_locked"))
  /\ SyncFrame

\* trx_purge_truncate_rseg_history(): the rollback segment header and the
\* undo pages are read (kind "read"), logs removed and segments freed
\* (kind "free").
HistoryPages(kind) ==
  /\ sync.at[PurgeThread] = At("history_locked")
  /\ sync' = page_access(sync, PurgeThread, kind, At("history_pages"))
  /\ SyncFrame

\* mutex_exit(&rseg->mutex) after trx_purge_truncate_rseg_history().
HistoryUnlock ==
  /\ sync.at[PurgeThread] = At("history_pages")
  /\ sync' = mutex_exit(sync, PurgeThread, HeldRseg(sync, PurgeThread), At("idle"))
  /\ SyncFrame

\* Truncation of an undo tablespace: mutex_enter(&rseg->mutex) before
\* skip_allocation is set.
MarkLock(r) ==
  /\ sync.owner[r] = NoThread
  /\ sync.at[PurgeThread] = At("idle")
  /\ sync' = mutex_enter(sync, PurgeThread, r, At("mark_locked"))
  /\ SyncFrame

\* mutex_exit(&rseg->mutex) at not_free or at the end of the iteration.
MarkUnlock ==
  /\ sync.at[PurgeThread] = At("mark_locked")
  /\ sync' = mutex_exit(sync, PurgeThread, HeldRseg(sync, PurgeThread), At("idle"))
  /\ SyncFrame

\* trx_purge_cleanse_purge_queue(): mutex_enter(&purge_sys.pq_mutex).
CleanseLock ==
  /\ sync.owner[PqMutex] = NoThread
  /\ sync.at[PurgeThread] = At("idle")
  /\ sync' = mutex_enter(sync, PurgeThread, PqMutex, At("cleanse"))
  /\ SyncFrame

\* trx_purge_cleanse_purge_queue(): mutex_exit(&purge_sys.pq_mutex).
CleanseUnlock ==
  /\ sync.at[PurgeThread] = At("cleanse")
  /\ sync' = mutex_exit(sync, PurgeThread, PqMutex, At("idle"))
  /\ SyncFrame

\* A committing thread locks its rollback segment r; push tells whether the
\* rollback segment has to be queued for purge (last_page_no == FIL_NULL).
CommitLock(t, r, push) ==
  /\ sync.owner[r] = NoThread
  /\ sync.at[t] = At("idle")
  /\ sync' = mutex_enter(sync, t, r,
               IF push THEN At("commit_queue") ELSE At("commit_locked"))
  /\ SyncFrame

\* The committing thread takes pq_mutex to push the rollback segment.
CommitPqLock(t) ==
  /\ sync.owner[PqMutex] = NoThread
  /\ sync.at[t] = At("commit_queue")
  /\ sync' = mutex_enter(sync, t, PqMutex, At("commit_push"))
  /\ SyncFrame

\* purge_queue.push() and mutex_exit(&purge_sys.pq_mutex).
CommitPush(t) ==
  /\ sync.at[t] = At("commit_push")
  /\ sync' = mutex_exit(sync, t, PqMutex, At("commit_locked"))
  /\ SyncFrame

\* trx_purge_add_undo_to_history(): the rollback segment header and the
\* undo page are written.
CommitHistory(t) ==
  /\ sync.at[t] = At("commit_locked")
  /\ sync' = page_access(sync, t, "write", At("commit_history"))
  /\ SyncFrame

\* The committing thread releases the rollback segment mutex.
CommitUnlock(t) ==
  /\ sync.at[t] = At("commit_history")
  /\ sync' = mutex_exit(sync, t, HeldRseg(sync, t), At("idle"))
  /\ SyncFrame

SyncNext ==
  \/ SetNextEnter
  \/ SetNextEmpty
  \/ \E r \in Rsegs : SetNextUnlock(r)
  \/ \E r \in Rsegs : SetNextLock(r)
  \/ SetNextRead
  \/ \E r \in Rsegs : NextLogLock(r)
  \/ NextLogRead
  \/ \E empty \in BOOLEAN : NextLogUnlock(empty)
  \/ \E r \in Rsegs : PrevLogRead(r)
  \/ \E r \in Rsegs : NextLogRelock(r)
  \/ NextLogPqLock
  \/ NextLogPush
  \/ NextLogDone
  \/ \E r \in Rsegs : HistoryLock(r)
  \/ \E kind \in {"read", "free"} : HistoryPages(kind)
  \/ HistoryUnlock
  \/ \E r \in Rsegs : MarkLock(r)
  \/ MarkUnlock
  \/ CleanseLock
  \/ CleanseUnlock
  \/ \E t \in Committers, r \in Rsegs, push \in BOOLEAN : CommitLock(t, r, push)
  \/ \E t \in Committers : CommitPqLock(t)
  \/ \E t \in Committers : CommitPush(t)
  \/ \E t \in Committers : CommitHistory(t)
  \/ \E t \in Committers : CommitUnlock(t)

SpecSync == Init /\ [][SyncNext]_vars

\* The mutex that thread t must acquire before it can take another step.
Wants(t) ==
  LET a == sync.at[t]
  IN IF a.l \in {"set_next_rseg", "prev_log_read"} THEN a.r
     ELSE IF a.l \in {"next_log_relocked", "commit_queue"} THEN PqMutex
     ELSE NoMutex

\* Some threads each wait for a mutex that another of them owns.
Deadlocked ==
  \E S \in SUBSET Threads :
    /\ S # {}
    /\ \A t \in S : Wants(t) # NoMutex /\ sync.owner[Wants(t)] \in S

\* C22: no thread ever acquires pq_mutex while it holds a rollback segment
\* mutex; when an operation needs both, pq_mutex is taken first. Stated for
\* the purge coordinator, the thread whose operations are in the source.
C22_QueueMutexFirst ==
  \A i, j \in DOMAIN sync.held[PurgeThread] :
    i < j => ~(/\ sync.held[PurgeThread][i] # PqMutex
               /\ sync.held[PurgeThread][j] = PqMutex)

\* C23: under any interleaving of the coordinator (set_next,
\* trx_purge_rseg_get_next_history_log, history truncation, queue cleanse)
\* with committing threads that push to the purge queue, pq_mutex is the
\* innermost lock: no thread acquires a rollback segment mutex while it holds
\* pq_mutex; and no deadlock over these mutexes is reachable.
C23_PqMutexInnermost ==
  /\ \A t \in Threads :
       \A i \in DOMAIN sync.held[t] :
         sync.held[t][i] = PqMutex => i = Len(sync.held[t])
  /\ ~Deadlocked

\* C23 witness: the coordinator holds a rollback segment mutex and inside it
\* pq_mutex, for its push, while a committing thread that holds the mutex of
\* another rollback segment waits for pq_mutex.
C23_Witness ==
  /\ sync.at[PurgeThread].l = "next_log_push"
  /\ Len(sync.held[PurgeThread]) = 2
  /\ \E t \in Committers :
       /\ sync.at[t].l = "commit_queue"
       /\ Wants(t) = PqMutex
       /\ sync.owner[PqMutex] = PurgeThread
       /\ sync.held[t] # <<>>

\* C24: a rollback segment mutex is never held while purge reads or frees
\* an undo page or a rollback segment header page; every purge operation
\* releases the rollback segment mutex before any page access.
C24_NoPageAccessUnderRsegMutex ==
  sync.page[PurgeThread] \in {"read", "free"}
    => \A i \in DOMAIN sync.held[PurgeThread] :
         sync.held[PurgeThread][i] = PqMutex

\* ---------------------------------------------------------------------
\* Progress of purge: the steps of the purge coordinator, with one purge
\* thread. The coordinator is a thread that srv_purge_coordinator_thread
\* keeps running.
PurgeStep ==
  \/ \E bs \in 1..MaxBatch : TrxPurgeStart(1, bs)
  \/ AttachStep
  \/ CoordinatorRun
  \/ TrxPurgeEnd
  \/ TruncateHistory

\* The undo logs of the transactions: up to MaxRecs undo records, all of
\* table 1.
LiveShapes == {recs \in UndoShapes : \A i \in DOMAIN recs : recs[i] = 1}

LiveNext ==
  \/ \E r \in Rsegs : TrxStart(r)
  \/ \E t \in trxs, recs \in LiveShapes : TrxCommit(t, recs)
  \/ ViewOpen
  \/ \E v \in views : ViewClose(v)
  \/ PurgeStep

SpecLive == Init /\ [][LiveNext]_vars /\ WF_vars(PurgeStep)

\* The log with trx_no n is on the history list of rollback segment r.
OnHistory(r, n) ==
  \E i \in DOMAIN rseg_hdr[r].history : rseg_hdr[r].history[i].trx_no = n

\* Purge has not yet gone through the log n of r: the rollback segment's
\* last not yet purged log is n or an older one.
NotPurged(r, n) ==
  /\ rseg_array[r].last_page_no # FIL_NULL
  /\ last_trx_no(rseg_array[r]) <= n

\* The committed log n of r is below the purge view and waits for purge.
Pending(r, n) ==
  /\ OnHistory(r, n)
  /\ n < low_limit_no(purge_sys)
  /\ NotPurged(r, n)

\* C28: if the coordinator keeps running batches (weak fairness on the
\* coordinator), every committed undo log on a history list whose trx_no is
\* below the view floor is eventually fetched and purged: the purge
\* position of its rollback segment moves past it, whatever the number of
\* rollback segments and the order in which the queue yields them.
C28_EventuallyPurged ==
  \A r \in Rsegs, n \in 1..MaxTrxId :
    Pending(r, n) ~> ~NotPurged(r, n)

\* C28 witness: logs of two rollback segments are below the view floor and
\* wait for purge while the purge position is in one of them.
C28_Witness ==
  \E r, q \in Rsegs, n, m \in 1..MaxTrxId :
    /\ r # q
    /\ Pending(r, n)
    /\ Pending(q, m)
    /\ purge_sys.rseg = r
    /\ n < m

\* ------------------------------------- crash during tablespace truncation
\* The truncation of an undo tablespace step by step, with a crash at any
\* point between mtr.start() (line 636) and the end of the call, followed by
\* crash recovery.  The page store (rseg_hdr, undo_segs, spaces) is what the
\* buffer pool holds; probe holds the mini-transaction and the redo log:
\*   space: the tablespace that is being truncated
\*   disk:  the pages as recovery finds them without the redo log written
\*          since mtr.start()
\*   mtr:   the log records of the open mini-transaction
\*   redo:  the log records of the mini-transactions committed since
\*          mtr.start()
\*   next:  the slot i of the loop over trx_sys.rseg_array (line 735)
CrashMaxTrxId == 4   \* cap of trx_sys.max_trx_id in SpecCrash

InitMtr ==
  [space |-> NoSpace, disk |-> <<>>, mtr |-> <<>>, redo |-> <<>>, next |-> 0]

InitCrash ==
  /\ max_trx_id = 1
  /\ trxs = {}
  /\ views = {}
  /\ rseg_array = [r \in 1..TruncNRsegs |-> [InitRseg EXCEPT !.space = SpaceOf(r)]]
  /\ rseg_hdr = [r \in 1..TruncNRsegs |-> [history |-> <<>>, history_size |-> 0]]
  /\ undo_segs = EmptyMap
  /\ rseg_history_len = 0
  /\ purge_queue = <<>>
  /\ purge_sys = InitPurgeSys
  /\ pc = "idle"
  /\ batch = InitBatch
  /\ nodes = [k \in 1..MaxThreads |-> <<>>]
  /\ srv = [InitSrv EXCEPT !.undo_tablespaces_active = NSpaces,
                           !.undo_log_truncate = TRUE]
  /\ spaces = [s \in 1..NSpaces |->
                 [size |-> IF s = 1 THEN GrownSize
                           ELSE SRV_UNDO_TABLESPACE_SIZE_IN_PAGES]]
  /\ probe = InitMtr
  /\ ghost = InitGhost
  /\ sync = InitSync

\* The server runs and no truncation mini-transaction is open.
Running == pc \notin {"mtr", "trim", "committed", "crashed", "recovered"}

CrashTrxStart(r) ==
  Running /\ srv.undo_sources /\ trx_start(r, CrashMaxTrxId, TruncMaxActive)
CrashTrxCommit(t, recs) == Running /\ trx_commit(t, recs, CrashMaxTrxId)

\* The pages of the store st.
PageImage(st) == [hdr |-> st.hdr, segs |-> st.segs, sp |-> st.sp]

\* mtr_t::trim_pages() and fsp_header_init(): the log record that cuts the
\* file of tablespace c to size pages and initialises it.
TrimRecord(c, size) == [type |-> "trim", space |-> c, size |-> size, rseg |-> 0]

\* trx_rseg_header_create(): the log record that writes the header page of
\* rollback segment i anew, with an empty history list and no undo log slot
\* in use.
HeaderRecord(c, i) == [type |-> "header", space |-> c, size |-> 0, rseg |-> i]

\* The effect of one log record on the pages img, as the mini-transaction
\* applies it to the buffer pool and as recovery applies it to the files.
\* The undo segments of a rollback segment are those that the slots of its
\* header point to: they are gone with the header that is written anew.
apply_record(img, rec) ==
  IF rec.type = "trim"
  THEN [img EXCEPT !.sp[rec.space].size = rec.size]
  ELSE [img EXCEPT
          !.hdr[rec.rseg] = [history |-> <<>>, history_size |-> 0],
          !.segs = [x \in {y \in DOMAIN img.segs :
                             img.segs[y].rseg # rec.rseg}
                      |-> img.segs[x]]]

\* Log replay: the records are applied in the order of the log.
RECURSIVE recv_apply(_, _)
recv_apply(img, log) ==
  IF log = <<>>
  THEN img
  ELSE recv_apply(apply_record(img, Head(log)), Tail(log))

\* A variant in which every log record is committed by a mini-transaction
\* of its own.
mtr_log_own_commit(p, rec) == [p EXCEPT !.redo = Append(@, rec)]

\* A log record is added to the open mini-transaction.
mtr_log(p, rec) == [p EXCEPT !.mtr = Append(@, rec)]

\* mtr_t::commit(), mtr_t::commit_shrink(): the records of the
\* mini-transaction reach the redo log together.
mtr_commit(p) == [p EXCEPT !.redo = @ \o p.mtr, !.mtr = <<>>]

\* trx_purge_truncate_history() up to mtr.start(): the history truncation,
\* the choice of the tablespace, the marking of its rollback segments and
\* the cleansing of the purge queue.
truncate_prepare ==
  CHOOSE res \in {
      LET c == IF st.ps.truncate.current # NoSpace
               THEN st.ps.truncate.current
               ELSE truncate_scan(st, truncate_scan_start(st.ps),
                                  truncate_scan_start(st.ps))
          st1 == IF \/ st.srv.undo_tablespaces_active < 2
                    \/ ~st.srv.undo_log_truncate
                    \/ c = NoSpace
                 THEN [st EXCEPT !.ok = FALSE]
                 ELSE truncate_mark([st EXCEPT !.ps.truncate.current = c], c,
                                    1, truncate_limit(purge_sys))
      IN IF st1.ok
         THEN [st1 EXCEPT
                 !.pq = trx_purge_cleanse_purge_queue(st1.pq, st1.rs, c)]
         ELSE st1
    : st \in {truncate_history_loop}} : TRUE

\* The state st of the call is stored; the coordinator goes on at to.
truncate_store(st, to) ==
  /\ purge_sys' = st.ps
  /\ rseg_array' = st.rs
  /\ rseg_hdr' = st.hdr
  /\ undo_segs' = st.segs
  /\ rseg_history_len' = st.len
  /\ purge_queue' = st.pq
  /\ spaces' = st.sp
  /\ srv' = st.srv
  /\ ghost' = [ghost EXCEPT !.removals = st.ev, !.fetched = <<>>]
  /\ pc' = to
  /\ UNCHANGED <<max_trx_id, trxs, views, batch, nodes, sync>>

\* The call finds no tablespace to truncate, or a rollback segment that is
\* not free, and returns.
TruncateNone ==
  /\ pc = "batch_done"
  /\ \E st \in {truncate_prepare} :
       /\ ~st.ok
       /\ truncate_store(st, "idle")
  /\ UNCHANGED probe

\* The call reaches mtr.start() for the tablespace truncate.current.
MtrStart ==
  /\ pc = "batch_done"
  /\ \E st \in {truncate_prepare} :
       /\ st.ok
       /\ truncate_store(st, "mtr")
       /\ probe' = [space |-> st.ps.truncate.current, disk |-> PageImage(st),
                    mtr |-> <<>>, redo |-> <<>>, next |-> 1]

\* The early returns of lines 649-655, 709-711 and 714-719: fast shutdown,
\* or fil_truncate_prepare() does not find the tablespace.  The
\* mini-transaction is committed with nothing in it.
MtrReturn(found) ==
  /\ pc = "mtr"
  /\ \/ srv.shutdown_state # SRV_SHUTDOWN_NONE /\ srv.fast_shutdown # 0
     \/ ~found
  /\ probe' = mtr_commit(probe)
  /\ pc' = "idle"
  /\ UNCHANGED <<max_trx_id, trxs, views, rseg_array, rseg_hdr, undo_segs,
                 rseg_history_len, purge_queue, purge_sys, batch, nodes, srv,
                 spaces, sync, ghost>>

\* Lines 721-733: the file is trimmed and the tablespace initialised, in
\* the mini-transaction; space.size is set.
MtrTrim ==
  /\ pc = "mtr"
  /\ ~(srv.shutdown_state # SRV_SHUTDOWN_NONE /\ srv.fast_shutdown # 0)
  /\ \E rec \in {TrimRecord(probe.space, SRV_UNDO_TABLESPACE_SIZE_IN_PAGES)} :
       /\ probe' = mtr_log(probe, rec)
       /\ spaces' = apply_record([hdr |-> rseg_hdr, segs |-> undo_segs,
                                  sp |-> spaces], rec).sp
  /\ pc' = "trim"
  /\ UNCHANGED <<max_trx_id, trxs, views, rseg_array, rseg_hdr, undo_segs,
                 rseg_history_len, purge_queue, purge_sys, batch, nodes, srv,
                 sync, ghost>>

\* One turn of the loop of lines 735-779: slot i is passed over, or its
\* header is created anew in the mini-transaction and its trx_rseg_t reset.
MtrHeaderCreate ==
  /\ pc = "trim"
  /\ probe.next \in DOMAIN rseg_array
  /\ LET i == probe.next
         rec == HeaderRecord(probe.space, i)
     IN IF rseg_array[i].space # probe.space
        THEN /\ probe' = [probe EXCEPT !.next = i + 1]
             /\ UNCHANGED <<rseg_array, rseg_hdr, undo_segs>>
        ELSE /\ probe' = [mtr_log(probe, rec) EXCEPT !.next = i + 1]
             /\ \E img \in {apply_record([hdr |-> rseg_hdr,
                                          segs |-> undo_segs,
                                          sp |-> spaces], rec)} :
                  /\ rseg_hdr' = img.hdr
                  /\ undo_segs' = img.segs
             /\ rseg_array' = [rseg_array EXCEPT ![i] =
                  [@ EXCEPT !.undo_cached = <<>>,
                            !.curr_size = 1,
                            !.trx_ref_count = 0,
                            !.needs_purge = 0,
                            !.skip_allocation = FALSE,
                            !.last_page_no = FIL_NULL,
                            !.last_commit = 0,
                            !.last_offset = 0]]
  /\ UNCHANGED <<max_trx_id, trxs, views, rseg_history_len, purge_queue,
                 purge_sys, pc, batch, nodes, srv, spaces, sync, ghost>>

\* mtr.commit_shrink(space), line 781.
MtrCommitShrink ==
  /\ pc = "trim"
  /\ probe.next \notin DOMAIN rseg_array
  /\ probe' = mtr_commit(probe)
  /\ pc' = "committed"
  /\ UNCHANGED <<max_trx_id, trxs, views, rseg_array, rseg_hdr, undo_segs,
                 rseg_history_len, purge_queue, purge_sys, batch, nodes, srv,
                 spaces, sync, ghost>>

\* Lines 783-805: purge_sys.rseg is let go if it was truncated, and
\* truncate.last takes over truncate.current.
TruncateEnd ==
  /\ pc = "committed"
  /\ purge_sys' = truncate_finish([ps |-> purge_sys, rs |-> rseg_array],
                                  probe.space).ps
  /\ pc' = "idle"
  /\ UNCHANGED <<max_trx_id, trxs, views, rseg_array, rseg_hdr, undo_segs,
                 rseg_history_len, purge_queue, batch, nodes, srv, spaces,
                 probe, sync, ghost>>

\* The server is killed: the buffer pool and the open mini-transaction are
\* lost, the files and the redo log stay.
Crash ==
  /\ pc \in {"mtr", "trim", "committed"}
  /\ pc' = "crashed"
  /\ probe' = [probe EXCEPT !.mtr = <<>>]
  /\ rseg_hdr' = probe.disk.hdr
  /\ undo_segs' = probe.disk.segs
  /\ spaces' = probe.disk.sp
  /\ UNCHANGED <<max_trx_id, trxs, views, rseg_array, rseg_history_len,
                 purge_queue, purge_sys, batch, nodes, srv, sync, ghost>>

\* Crash recovery: the redo log is applied to the files.
Recover ==
  /\ pc = "crashed"
  /\ pc' = "recovered"
  /\ \E img \in {recv_apply(probe.disk, probe.redo)} :
       /\ rseg_hdr' = img.hdr
       /\ undo_segs' = img.segs
       /\ spaces' = img.sp
  /\ UNCHANGED <<max_trx_id, trxs, views, rseg_array, rseg_history_len,
                 purge_queue, purge_sys, batch, nodes, srv, probe, sync,
                 ghost>>

CrashNext ==
  \/ \E r \in 1..TruncNRsegs : CrashTrxStart(r)
  \/ \E t \in trxs, recs \in TruncShapes : CrashTrxCommit(t, recs)
  \/ \E fast \in 0..1 : PreShutdown(fast)
  \/ ShutdownInitiate
  \/ TruncPurgeStart
  \/ AttachStep
  \/ CoordinatorRun
  \/ TrxPurgeEnd
  \/ TruncateNone
  \/ MtrStart
  \/ \E found \in BOOLEAN : MtrReturn(found)
  \/ MtrTrim
  \/ MtrHeaderCreate
  \/ MtrCommitShrink
  \/ TruncateEnd
  \/ Crash
  \/ Recover

SpecCrash == InitCrash /\ [][CrashNext]_vars

\* The page store now.
Pages == [hdr |-> rseg_hdr, segs |-> undo_segs, sp |-> spaces]

\* The pages after a truncation of tablespace c that began with the pages
\* img and did not crash (truncate_shrink).
ShrunkImage(img, c) ==
  PageImage(truncate_shrink([hdr |-> img.hdr, segs |-> img.segs,
                             sp |-> img.sp, rs |-> rseg_array], c))

\* C21: the shrink of the tablespace and the re-creation of all its rollback
\* segment headers take effect by one mini-transaction commit.  After a
\* crash and recovery the tablespace and every rollback segment header are
\* as they were before the truncation if the crash came before
\* mtr.commit_shrink() was logged, and as a truncation that did not crash
\* leaves them if it came after.
C21_CrashAtomic ==
  pc = "recovered" =>
    IF probe.redo = <<>>
    THEN Pages = probe.disk
    ELSE Pages = ShrunkImage(probe.disk, probe.space)

\* A truncation that is not interrupted leaves the same pages as
\* truncate_shrink: the steps agree with the truncation as one step.
TruncationStepsAgree ==
  pc = "committed" => Pages = ShrunkImage(probe.disk, probe.space)

\* A recovery after a crash that came after the commit, and one after a
\* crash in the middle of the header re-creation, both of a tablespace that
\* had grown and held cached undo segments.
C21_Witness ==
  /\ pc = "recovered"
  /\ probe.redo # <<>>
  /\ probe.disk.sp[probe.space].size > SRV_UNDO_TABLESPACE_SIZE_IN_PAGES
  /\ \E x \in DOMAIN probe.disk.segs :
       SpaceOf(probe.disk.segs[x].rseg) = probe.space
  /\ Pages # probe.disk

C21_WitnessBefore ==
  /\ pc = "recovered"
  /\ probe.redo = <<>>
  /\ probe.next = 2
  /\ \E x \in DOMAIN probe.disk.segs :
       SpaceOf(probe.disk.segs[x].rseg) = probe.space
  /\ Pages = probe.disk
  /\ Pages # ShrunkImage(probe.disk, probe.space)

\* ------------------------------------------------- queue and purge cursor
\* The rollback segments in the elements of the purge queue.
Queued == UNION {Range(purge_queue[k].rsegs) : k \in DOMAIN purge_queue}

\* C31: every rollback segment in the purge queue, and every rollback
\* segment that set_next() selects as purge_sys.rseg, has an unpurged
\* history: last_page_no != FIL_NULL, and it names a log on the history
\* list.
C31_QueuedHaveHistory ==
  /\ \A r \in Queued : has_unpurged(rseg_array, r)
  /\ ghost.popped.sel

\* set_next() has selected a rollback segment, and a rollback segment whose
\* oldest log was purged is back in the queue under a newer log.
C31_Witness ==
  /\ ghost.popped.n > 0
  /\ purge_sys.rseg # NoRseg
  /\ \E r \in Queued :
       /\ Len(rseg_hdr[r].history) >= 2
       /\ rseg_array[r].last_page_no #
            rseg_hdr[r].history[Len(rseg_hdr[r].history)].page

\* ------------------------------------------- grouped purge queue elements
\* A transaction that holds an undo log in each of two rollback segments
\* commits: both logs get the same trx_no, and the rollback segments that
\* have nothing left to purge are queued as one element, a group under that
\* trx_no.  t1 and t2 are the two undo logs of the transaction.
GroupCommit(t1, t2, recs1, recs2) ==
  /\ Loading
  /\ t1 \in trxs /\ t2 \in trxs
  /\ t1.rseg < t2.rseg
  /\ max_trx_id < LoadMaxTrxId
  /\ LET no == max_trx_id
         Undo(t, recs) ==
           [state |-> trx_undo_set_state_at_finish(ShapeSize(recs)),
            size |-> ShapeSize(recs), seg |-> t.seg,
            hdr_page_no |-> PageNo(t.seg, 1),
            hdr_offset |-> undo_segs[t.seg].nlogs, recs |-> recs]
         Added(t, recs, len) ==
           trx_purge_add_undo_to_history(
             [rseg |-> [rseg_array[t.rseg] EXCEPT !.curr_size =
                          @ + (ShapeSize(recs) - undo_segs[t.seg].size)],
              hdr |-> rseg_hdr[t.rseg], len |-> len], t.id, no,
             Undo(t, recs))
         a1 == Added(t1, recs1, rseg_history_len)
         a2 == Added(t2, recs2, a1.len)
         group == SelectSeq(<<t1.rseg, t2.rseg>>,
                            LAMBDA r : rseg_array[r].last_page_no = FIL_NULL)
     IN /\ max_trx_id' = no + 1
        /\ purge_queue' = IF group # <<>>
                          THEN purge_queue_push(purge_queue,
                                 [trx_no |-> no, rsegs |-> group])
                          ELSE purge_queue
        /\ undo_segs' = [undo_segs EXCEPT
                           ![t1.seg].state = Undo(t1, recs1).state,
                           ![t1.seg].size = ShapeSize(recs1),
                           ![t2.seg].state = Undo(t2, recs2).state,
                           ![t2.seg].size = ShapeSize(recs2)]
        /\ rseg_array' = [rseg_array EXCEPT
                            ![t1.rseg] = [a1.rseg EXCEPT !.trx_ref_count = @ - 1],
                            ![t2.rseg] = [a2.rseg EXCEPT !.trx_ref_count = @ - 1]]
        /\ rseg_hdr' = [rseg_hdr EXCEPT ![t1.rseg] = a1.hdr,
                                        ![t2.rseg] = a2.hdr]
        /\ rseg_history_len' = a2.len
        /\ trxs' = trxs \ {t1, t2}
  /\ UNCHANGED <<views, purge_sys, pc, batch, nodes, srv, spaces, probe, sync,
                 ghost>>

GroupNext ==
  \/ \E r \in Rsegs : LoadTrxStart(r)
  \/ \E t \in trxs, recs \in LoadShapes : LoadTrxCommit(t, recs)
  \/ \E t1, t2 \in trxs, recs1, recs2 \in LoadShapes :
       GroupCommit(t1, t2, recs1, recs2)
  \/ \E bs \in LoadMinBatch..LoadMaxBatch : LoadPurgeStart(1, bs)
  \/ AttachStep
  \/ CoordinatorRun
  \/ TrxPurgeEnd
  \/ TruncateHistory

SpecGroup == Init /\ [][GroupNext]_vars

SetNextNow ==
  set_next([ps |-> purge_sys, rs |-> rseg_array, pq |-> purge_queue,
            n |-> batch.n_pages_handled, pop |-> ghost.popped, ok |-> TRUE,
            rec |-> NullRec])

\* C33: each time set_next() selects a rollback segment, purge_sys.tail.trx_no
\* <= last_trx_no() of that rollback segment holds before the update (the
\* ut_a of line 120), with commits taking place between any two steps of
\* purge; and after a call that selects a rollback segment tail.trx_no is
\* its last_trx_no() and hdr_page_no, hdr_offset are its last_page_no,
\* last_offset().
C33_TailBelowSelected ==
  /\ ghost.popped.tail_ok
  /\ (pc = "attach" /\ ~purge_sys.next_stored /\ SetNextNow.ok) =>
       LET ps == SetNextNow.ps
           rseg == SetNextNow.rs[ps.rseg]
       IN /\ SetNextNow.pop.tail_ok
          /\ ps.tail.trx_no = last_trx_no(rseg)
          /\ ps.hdr_page_no = rseg.last_page_no
          /\ ps.hdr_offset = last_offset(rseg)

\* set_next() has selected a rollback segment whose last log lies beyond the
\* trx_no that purge had advanced tail to after the log fetched before it.
C33_Witness ==
  /\ pc = "attach"
  /\ purge_sys.next_stored
  /\ ghost.popped.n > 0
  /\ ghost.fetched # <<>>
  /\ purge_sys.tail.trx_no > ghost.fetched[Len(ghost.fetched)].rec.trx_no + 1

\* The trx_no of the logs on the history list of rollback segment r.
HistoryNos(hdr, r) == {hdr[r].history[k].trx_no : k \in 1..Len(hdr[r].history)}

\* C34: the limit that trx_purge_truncate_history() passes to
\* trx_purge_truncate_rseg_history() never has a trx_no above low_limit_no,
\* and no step takes a log whose trx_no is not below low_limit_no off a
\* history list.
C34_RemovedBelowView ==
  [][/\ truncate_limit(purge_sys).trx_no <= low_limit_no(purge_sys)
     /\ \A k \in 1..Len(ghost'.removals) :
          ghost'.removals[k].limit.trx_no <= low_limit_no(purge_sys)
     /\ \A r \in DOMAIN rseg_hdr :
          \A no \in HistoryNos(rseg_hdr, r) \ HistoryNos(rseg_hdr', r) :
            no < low_limit_no(purge_sys)]_vars

\* A truncation whose limit was the purge view (tail had reached it) has
\* removed a log and has left a log that is not below the view.
C34_Witness ==
  /\ pc = "idle"
  /\ \E k \in 1..Len(ghost.removals) :
       LET e == ghost.removals[k]
       IN /\ e.limit = [trx_no |-> low_limit_no(purge_sys), undo_no |-> 0]
          /\ e.trx_no < low_limit_no(purge_sys)
          /\ \E no \in HistoryNos(rseg_hdr, e.rseg) :
               no >= low_limit_no(purge_sys)

\* The records (as indexes into recs) that the history truncation of a step
\* takes away from log k of the history list of rollback segment r: all
\* that were left when trx_purge_truncate_rseg_history() removes the log, and
\* those below the new start when trx_undo_truncate_start() trims it.
TakenAway(r, k) ==
  LET log == rseg_hdr[r].history[k]
      after == {j \in 1..Len(rseg_hdr'[r].history) :
                  rseg_hdr'[r].history[j].trx_no = log.trx_no}
  IN IF after # {}
     THEN (log.start + 1)..rseg_hdr'[r].history[CHOOSE j \in after : TRUE].start
     ELSE IF \E e \in 1..Len(ghost'.removals) :
               /\ ghost'.removals[e].rseg = r
               /\ ghost'.removals[e].trx_no = log.trx_no
     THEN (log.start + 1)..Len(log.recs)
     ELSE {}

\* The positions (trx_no, undo_no) of the undo records of the history lists
\* that have not been fetched.
Unfetched ==
  UNION {UNION {{[trx_no |-> rseg_hdr[r].history[k].trx_no, undo_no |-> j - 1] :
                   j \in {i \in (rseg_hdr[r].history[k].start + 1)
                                  ..Len(rseg_hdr[r].history[k].recs) :
                            <<r, rseg_hdr[r].history[k].trx_no, i - 1>>
                              \notin ghost.done}} :
                 k \in 1..Len(rseg_hdr[r].history)} :
         r \in DOMAIN rseg_hdr}

\* C35: the history truncation of trx_purge_truncate_history() never removes
\* or trims an undo record that has not been fetched: when it is called no
\* purge node holds a record that is still to be executed and its limit is
\* not above the position of any record that is still to be fetched, and
\* every record it takes away has been fetched.
C35_OnlyFetchedTruncated ==
  [][/\ pc \in {"batch_done", "truncated"} =>
          /\ batch.tasks = {}
          /\ \A n \in DOMAIN nodes : nodes[n] = <<>>
          /\ \A pos \in Unfetched :
               iterator_le(truncate_limit(purge_sys), pos)
     /\ \A r \in DOMAIN rseg_hdr : \A k \in 1..Len(rseg_hdr[r].history) :
          \A j \in TakenAway(r, k) :
            <<r, rseg_hdr[r].history[k].trx_no, j - 1>> \in ghost.done]_vars

\* A truncation has trimmed a log up to the limit and has left it on the
\* history list, with records that are still to be fetched on the lists.
C35_Witness ==
  /\ pc = "idle"
  /\ Unfetched # {}
  /\ \E r \in DOMAIN rseg_hdr : \E k \in 1..Len(rseg_hdr[r].history) :
       /\ rseg_hdr[r].history[k].start > 0
       /\ \E pos \in Unfetched : pos.trx_no >= rseg_hdr[r].history[k].trx_no

\* The number of undo log headers on the history lists of the rollback
\* segments 1..r.
RECURSIVE HistoryTotal(_, _)
HistoryTotal(hdr, r) ==
  IF r = 0 THEN 0 ELSE Len(hdr[r].history) + HistoryTotal(hdr, r - 1)

\* C36: trx_sys.rseg_history_len is the total number of undo log headers on
\* the history lists of all rollback segments, in every reachable state.
C36_HistoryLenIsTotal ==
  rseg_history_len = HistoryTotal(rseg_hdr, Len(rseg_hdr))

\* C37: a rollback segment has skip_allocation set only if it resides in
\* the undo tablespace that purge_sys.truncate.current designates; once
\* truncate.current is reset no rollback segment is marked.
C37_MarkedInCurrent ==
  \A r \in DOMAIN rseg_array :
    rseg_array[r].skip_allocation =>
      /\ purge_sys.truncate.current # NoSpace
      /\ rseg_array[r].space = purge_sys.truncate.current

\* An attempt on a tablespace has returned early: one of its rollback
\* segments is marked, and a rollback segment of another tablespace with an
\* active transaction is not.
C37_Witness ==
  /\ pc = "idle"
  /\ purge_sys.truncate.current # NoSpace
  /\ \E r \in DOMAIN rseg_array : rseg_array[r].skip_allocation
  /\ \E r \in DOMAIN rseg_array :
       /\ rseg_array[r].space # purge_sys.truncate.current
       /\ rseg_array[r].trx_ref_count > 0

\* A truncation has completed after an attempt on the same tablespace had
\* returned early with its rollback segments marked.
C37_WitnessCompleted ==
  /\ purge_sys.truncate.current = NoSpace
  /\ purge_sys.truncate.last # NoSpace
  /\ \E k \in 1..Len(ghost.attempts) :
       /\ ghost.attempts[k].outcome = "done"
       /\ ~ghost.attempts[k].scanned

\* ------------------------------------------------ the fetch, step by step
\* A specification in which the fetch that ends an undo log takes two
\* steps, so that a commit can take place between
\* trx_purge_rseg_get_next_history_log() and the
\* trx_purge_choose_next_log() that trx_purge_get_next_rec() calls after it.
\* Each step is a whole number of critical sections of rseg->mutex and
\* pq_mutex; a commit runs under the mutex of its rollback segment.

\* The arguments of the fetch of one iteration of the attach loop.
FetchArgs ==
  [ps |-> IF iterator_le(purge_sys.head, purge_sys.tail)
          THEN [purge_sys EXCEPT !.head = purge_sys.tail]
          ELSE purge_sys,
   rs |-> rseg_array, pq |-> purge_queue, n |-> batch.n_pages_handled,
   pop |-> ghost.popped, ok |-> TRUE, rec |-> NullRec]

\* trx_purge_fetch_next_rec() up to the call of trx_purge_get_next_rec().
FetchStored ==
  IF ~FetchArgs.ps.next_stored
  THEN trx_purge_choose_next_log(FetchArgs)
  ELSE FetchArgs

\* trx_purge_get_next_rec() is called and finds no further record in the
\* undo log: it goes on to trx_purge_rseg_get_next_history_log().
EndsLog ==
  /\ FetchStored.ps.next_stored
  /\ FetchStored.ps.tail.trx_no < low_limit_no(FetchStored.ps)
  /\ \/ FetchStored.ps.offset = 0
     \/ FetchStored.ps.offset >= Len(CursorLog(FetchStored.ps).recs)

\* An iteration of the attach loop whose fetch does not end an undo log.
StepAttach == ~EndsLog /\ AttachStep

\* trx_purge_get_next_rec() up to the return of
\* trx_purge_rseg_get_next_history_log(); the record copied is kept in probe.
StepNextLog ==
  /\ pc = "attach"
  /\ srv.undo_sources \/ srv.fast_shutdown = 0
  /\ EndsLog
  /\ \E st \in {trx_purge_rseg_get_next_history_log(FetchStored)} :
       /\ purge_sys' = st.ps
       /\ rseg_array' = st.rs
       /\ purge_queue' = st.pq
       /\ batch' = [batch EXCEPT !.n_pages_handled = st.n]
       /\ ghost' = [ghost EXCEPT !.popped = st.pop, !.prev_view = NoView]
  /\ probe' = [rec |-> trx_purge_fetch_next_rec(FetchArgs).rec]
  /\ pc' = "choose"
  /\ UNCHANGED <<max_trx_id, trxs, views, rseg_hdr, undo_segs,
                 rseg_history_len, nodes, srv, spaces, sync>>

\* trx_purge_choose_next_log() at the end of trx_purge_get_next_rec(), the
\* return of the record and the rest of the iteration of the attach loop.
StepChoose ==
  /\ pc = "choose"
  /\ \E st \in {trx_purge_choose_next_log(
                  [ps |-> purge_sys, rs |-> rseg_array, pq |-> purge_queue,
                   n |-> batch.n_pages_handled, pop |-> ghost.popped,
                   ok |-> TRUE, rec |-> probe.rec])} :
       /\ purge_sys' = st.ps
       /\ rseg_array' = st.rs
       /\ purge_queue' = st.pq
       /\ IF probe.rec = trx_purge_dummy_rec
          THEN /\ pc' = "attach"
               /\ batch' = [batch EXCEPT !.n_pages_handled = st.n]
               /\ ghost' = [ghost EXCEPT !.popped = st.pop]
               /\ UNCHANGED nodes
          ELSE LET b1 == [batch EXCEPT !.n_pages_handled = st.n]
                   a == attach_assign(b1, probe.rec.table)
                   done == st.n >= batch.batch_size
               IN /\ batch' = IF done
                              THEN [a.b EXCEPT !.tasks =
                                      purge_tasks(batch.n_purge_threads)]
                              ELSE a.b
                  /\ nodes' = [nodes EXCEPT ![a.node] = Append(@, probe.rec)]
                  /\ ghost' = [ghost EXCEPT
                                 !.popped = st.pop,
                                 !.cut = done,
                                 !.fetched = Append(@, [rec |-> probe.rec,
                                                        node |-> a.node]),
                                 !.done = @ \cup {<<probe.rec.rseg,
                                                    probe.rec.trx_no,
                                                    probe.rec.undo_no>>}]
                  /\ pc' = IF done THEN "execute" ELSE "attach"
  /\ probe' = InitProbe
  /\ UNCHANGED <<max_trx_id, trxs, views, rseg_hdr, undo_segs,
                 rseg_history_len, srv, spaces, sync>>

StepNext ==
  \/ \E r \in Rsegs : TrxStart(r)
  \/ \E t \in trxs, recs \in UndoShapes : TrxCommit(t, recs)
  \/ ViewOpen
  \/ \E v \in views : ViewClose(v)
  \/ \E bs \in 1..MaxBatch : TrxPurgeStart(1, bs)
  \/ StepAttach
  \/ StepNextLog
  \/ StepChoose
  \/ CoordinatorRun
  \/ TrxPurgeEnd
  \/ TruncateHistory

SpecStep == Init /\ [][StepNext]_vars

\* How often rollback segment r is queued, and how often it appears among
\* the queue elements and purge_sys.rseg.
TimesQueued(r) ==
  Cardinality({<<k, i>> \in (DOMAIN purge_queue) \X (1..NRsegs) :
                 /\ i <= Len(purge_queue[k].rsegs)
                 /\ purge_queue[k].rsegs[i] = r})
Appearances(r) == TimesQueued(r) + (IF purge_sys.rseg = r THEN 1 ELSE 0)

\* The undo record that a step hands to a purge node had not been fetched
\* before.
FetchedOnce ==
  Len(ghost'.fetched) > Len(ghost.fetched) =>
    LET rec == ghost'.fetched[Len(ghost'.fetched)].rec
    IN <<rec.rseg, rec.trx_no, rec.undo_no>> \notin ghost.done

\* C38 (as stated): in every state that an interleaving of commits with the
\* steps of the purge coordinator reaches, a rollback segment appears at
\* most once among the purge queue elements and purge_sys.rseg, and exactly
\* once if it has logs that are still to be purged.
C38_AppearsOnce_AsStated ==
  \A r \in Rsegs :
    /\ Appearances(r) <= 1
    /\ rseg_array[r].last_page_no # FIL_NULL => Appearances(r) = 1

\* C38: a rollback segment is queued at most once, and one with logs still
\* to be purged is queued or is purge_sys.rseg; it is not both, except
\* between trx_purge_rseg_get_next_history_log() and the set_next() that
\* follows it, when purge_sys.rseg is still the rollback segment whose log
\* has just been finished; and no undo record is fetched twice.
C38_AppearsOnce ==
  [][/\ \A r \in Rsegs :
          /\ TimesQueued(r) <= 1
          /\ rseg_array[r].last_page_no # FIL_NULL => Appearances(r) >= 1
          /\ pc # "choose" => Appearances(r) <= 1
     /\ FetchedOnce]_vars

\* Between trx_purge_rseg_get_next_history_log() and set_next(), the
\* rollback segment that purge_sys.rseg still names is in the purge queue.
C38_Witness ==
  /\ pc = "choose"
  /\ purge_sys.rseg # NoRseg
  /\ TimesQueued(purge_sys.rseg) = 1

\* --------------------------- grouped elements and undo tablespace truncation
\* A specification in which a transaction with an undo log in each of two
\* rollback segments, one in each undo tablespace, commits before the first
\* batch; undo tablespace 2 has grown. Batches of one page and
\* trx_purge_truncate_history() follow. When set_next() finds
\* last_page_no == FIL_NULL in the rollback segment it selects, ut_a at
\* line 112 ends the server.
InitIter ==
  /\ max_trx_id = 1
  /\ trxs = {}
  /\ views = {}
  /\ rseg_array = [r \in Rsegs |-> [InitRseg EXCEPT !.space = SpaceOf(r)]]
  /\ rseg_hdr = [r \in Rsegs |-> [history |-> <<>>, history_size |-> 0]]
  /\ undo_segs = EmptyMap
  /\ rseg_history_len = 0
  /\ purge_queue = <<>>
  /\ purge_sys = InitPurgeSys
  /\ pc = "idle"
  /\ batch = InitBatch
  /\ nodes = [k \in 1..MaxThreads |-> <<>>]
  /\ srv = [InitSrv EXCEPT !.undo_tablespaces_active = NSpaces,
                           !.undo_log_truncate = TRUE]
  /\ spaces = [s \in 1..NSpaces |->
                 [size |-> IF s = NSpaces THEN GrownSize
                           ELSE SRV_UNDO_TABLESPACE_SIZE_IN_PAGES]]
  /\ probe = InitProbe
  /\ ghost = InitGhost
  /\ sync = InitSync

\* The rollback segment that set_next() takes next from the iterator's
\* current element, if any is left in it.
MoreRseg ==
  IF purge_sys.m_iter <= Len(purge_sys.m_rsegs.rsegs)
  THEN purge_sys.m_rsegs.rsegs[purge_sys.m_iter]
  ELSE NoRseg

\* The next iteration of the attach loop calls set_next(), which takes a
\* rollback segment from the current element and finds its last_page_no to be
\* FIL_NULL: ut_a(purge_sys.rseg->last_page_no != FIL_NULL) fails.
AssertFails ==
  /\ pc = "attach"
  /\ srv.undo_sources \/ srv.fast_shutdown = 0
  /\ MoreRseg # NoRseg
  /\ rseg_array[MoreRseg].last_page_no = FIL_NULL
  /\ ~purge_sys.next_stored \/ EndsLog

IterAttach == ~AssertFails /\ AttachStep

ServerAbort ==
  /\ AssertFails
  /\ pc' = "aborted"
  /\ UNCHANGED <<max_trx_id, trxs, views, rseg_array, rseg_hdr, undo_segs,
                 rseg_history_len, purge_queue, purge_sys, batch, nodes, srv,
                 spaces, probe, sync, ghost>>

IterNext ==
  \/ \E r \in Rsegs : LoadTrxStart(r)
  \/ \E t \in trxs, recs \in TruncShapes : LoadTrxCommit(t, recs)
  \/ \E t1, t2 \in trxs, recs1, recs2 \in TruncShapes :
       GroupCommit(t1, t2, recs1, recs2)
  \/ TrxPurgeStart(1, 1)
  \/ IterAttach
  \/ ServerAbort
  \/ CoordinatorRun
  \/ TrxPurgeEnd
  \/ TruncateHistory

SpecIter == InitIter /\ [][IterNext]_vars

\* The undo tablespaces whose truncation a step completes.
TruncatedBy ==
  IF pc \in {"batch_done", "truncated"} /\ pc' \in {"truncated", "idle"}
       /\ pc' # pc
  THEN {ghost'.attempts[k].space :
          k \in {j \in 1..Len(ghost'.attempts) :
                   ghost'.attempts[j].outcome = "done"}}
  ELSE {}

\* The rollback segments of the iterator's current element that set_next()
\* has still to take (m_iter up to m_rsegs.end()).
IterRest(ps) ==
  {ps.m_rsegs.rsegs[i] : i \in ps.m_iter..Len(ps.m_rsegs.rsegs)}

\* What the purge cursor may refer to once undo tablespace c has been
\* truncated; rest is what is left of the iterator's current element.
CursorClear(c, rest) ==
  /\ (purge_sys.rseg # NoRseg /\ rseg_array[purge_sys.rseg].space = c) =>
       /\ purge_sys'.rseg = NoRseg
       /\ ~purge_sys'.next_stored
  /\ purge_sys'.rseg # NoRseg => rseg_array'[purge_sys'.rseg].space # c
  /\ \A k \in DOMAIN purge_queue' :
       \A r \in Range(purge_queue'[k].rsegs) : rseg_array'[r].space # c
  /\ \A r \in rest : rseg_array'[r].space # c

CoordinatorStep ==
  \/ TruncPurgeStart
  \/ AttachStep
  \/ CoordinatorRun
  \/ TrxPurgeEnd
  \/ TruncateHistory

FairNext ==
  \/ \E r \in 1..TruncNRsegs : TruncTrxStart(r)
  \/ \E t \in trxs, recs \in TruncShapes : TruncTrxCommit(t, recs)
  \/ \E s \in 1..NSpaces : SpaceExtend(s)
  \/ TruncPurgeStart
  \/ AttachStep
  \/ CoordinatorRun
  \/ TrxPurgeEnd
  \/ TruncateHistory

\* trx_purge_truncate_history() can be called exactly when a batch has just
\* ended, and the call changes pc.
TruncateEnabled == pc = "batch_done"

\* Weak fairness of the coordinator's steps, and strong fairness of the call
\* of trx_purge_truncate_history(), spelled out with TruncateEnabled for
\* ENABLED <<TruncateHistory>>_vars: a coordinator that ends batches again
\* and again calls trx_purge_truncate_history() again and again, though it
\* may start more than one batch between two calls.
SpecFair ==
  /\ InitTrunc
  /\ [][FairNext]_vars
  /\ WF_vars(CoordinatorStep)
  /\ ([]<>TruncateEnabled => []<><<TruncateHistory>>_vars)

\* The rollback segments of undo tablespace c.
RsegsOf(c) == {r \in DOMAIN rseg_array : rseg_array[r].space = c}

\* Undo tablespace c is above the threshold and is the one that
\* purge_sys.truncate.current designates.
Candidate(c) ==
  /\ purge_sys.truncate.current = c
  /\ spaces[c].size > srv.max_undo_log_size

\* No transaction refers to a rollback segment of c and the purge view sees
\* needs_purge of each of them.
Quiescent(c) ==
  \A r \in RsegsOf(c) :
    /\ rseg_array[r].trx_ref_count = 0
    /\ sees(purge_sys, rseg_array[r].needs_purge)

\* The last call of trx_purge_truncate_history() has truncated undo
\* tablespace c: it has its initial size, it is no longer the candidate and
\* none of its rollback segments is marked.
TruncationDone(c) ==
  /\ \E k \in 1..Len(ghost.attempts) :
       ghost.attempts[k].space = c /\ ghost.attempts[k].outcome = "done"
  /\ spaces[c].size = SRV_UNDO_TABLESPACE_SIZE_IN_PAGES
  /\ purge_sys.truncate.current # c
  /\ \A r \in RsegsOf(c) : ~rseg_array[r].skip_allocation

\* C40: an undo tablespace above the threshold that has been chosen as the
\* candidate, whose rollback segments no transaction refers to and whose
\* needs_purge the purge view sees, is truncated in the end and
\* skip_allocation of its rollback segments is false again, unless a
\* transaction comes to refer to one of its rollback segments before.
C40_EventuallyTruncated ==
  \A c \in 1..NSpaces :
    (Candidate(c) /\ Quiescent(c)) ~> (TruncationDone(c) \/ ~Quiescent(c))

\* A truncation has completed on a tablespace that an earlier call had left
\* as the candidate with rollback segments marked: the attempt was retried.
C40_Witness ==
  /\ pc = "idle"
  /\ \E k \in 1..Len(ghost.attempts) :
       /\ ghost.attempts[k].outcome = "done"
       /\ ~ghost.attempts[k].scanned
       /\ TruncationDone(ghost.attempts[k].space)

====
